---- MODULE Spec2Model ----
(***************************************************************************)
(* Model of the stateful security trackers of pier-reposteria-backend      *)
(* (middleware/rateLimiting.js, middleware/securityHeaders.js,             *)
(* middleware/tokenBlacklist.js) and of the routes of server.js and        *)
(* authRoutes that use them.  Time is the value of Date.now() in           *)
(* milliseconds.                                                           *)
(***************************************************************************)
EXTENDS Integers, Naturals, Sequences, FiniteSets, TLC

VARIABLES
    now,        \* Date.now()
    attempts,   \* LoginAttemptTracker.attempts : email -> {count, firstAttempt, lockedUntil}
    ret,        \* the call made by the last step: its name, its key, the value it returned,
                \* what had been seen of the key before it, whether the key had a record
    seen,       \* per identifier, the calls made so far (history, never read by the code)
    resetRequests,  \* PasswordResetTracker.requests : email -> {count, windowStart}
    allowedAt,      \* per identifier, when the latest allowed reset requests were made (history)
    maxRequests,    \* GeneralRateLimiter.maxRequests
    windowMs,       \* GeneralRateLimiter.windowMs
    ipRequests,     \* GeneralRateLimiter.requests : ip -> {count, windowStart}
    ipWindow,       \* per address, the requests made in the current window (history)
    tokens,         \* CSRFProtection.tokens : sessionId -> {token, createdAt}
    csrfSeen,       \* per session key, the token generated last and when (history)
    usuarios,       \* the collection 'Usuarios' : lower-cased email -> user document
    claimed,        \* the login tracker as it would be if the login route recorded every
                    \* failed and every successful verification (history)
    blacklistedTokens,  \* TokenBlacklist.blacklistedTokens : token -> expiresAt
    revoked,            \* per token, the expiresAt of its latest add (history)
    inflight,           \* per concurrently handled request: where its handler is, and
                        \* the tracker as it was when the handler started (history)
    recent,             \* per address, the allowed canRequest calls of the latest windowMs
                        \* as logged by a caller: the instants and how many at each (history)
    unswept,            \* the five tracker maps as the same calls leave them when no
                        \* sweep ever runs (history)
    extras,             \* the documents of 'Usuarios' that were inserted while the
                        \* collection already held a document with their email, in
                        \* insertion order (findOne and updateOne act on the first match)
    accepted            \* the lower-cased emails for which verifyEmail accepted a code, and
                        \* those whose password resetPassword replaced (history)

loginVars == <<attempts, seen>>
resetVars == <<resetRequests, allowedAt>>
generalVars == <<maxRequests, windowMs, ipRequests, ipWindow>>
csrfVars == <<tokens, csrfSeen>>
httpVars == <<usuarios, claimed, extras, accepted>>
blacklistVars == <<blacklistedTokens, revoked>>
vars == <<now, ret, loginVars, resetVars, generalVars, csrfVars, httpVars, blacklistVars,
         inflight, recent, unswept>>

-----------------------------------------------------------------------------
(* Bounds of the model *)

\* the clock runs over MaxQuarter quarters of an hour after the start
MaxQuarter == 4
\* recordFailedAttempt is not called on a record whose count reached MaxCount
MaxCount == 6
\* the clock of the one-hour trackers runs over MaxHour hours after the start
MaxHour == 3
\* an address sends no more than MaxBurst requests within one window of the limiter
MaxBurst == 6
\* the clock of the server runs over MaxServerQuarter quarters of an hour after the start
MaxServerQuarter == 1
\* the clock of the sessions runs over MaxWeek weeks after the start
MaxWeek == 1
\* the number of requests handled concurrently
MaxWorkers == 3
\* the clock of the burst runs over the ends of MaxWindow windows of the limiter
MaxWindow == 1

-----------------------------------------------------------------------------
(* Time *)

MINUTE_MS == 60 * 1000
QUARTER_MS == 15 * MINUTE_MS
HOUR_MS == 60 * MINUTE_MS

\* Date.now() at process start (any positive epoch time)
Epoch == 24 * HOUR_MS

\* the instants within a quarter of an hour at which the model looks at the clock
Offsets == {0, 1, 7 * MINUTE_MS}

Instants == {Epoch + q * QUARTER_MS + o : q \in 0..MaxQuarter, o \in Offsets}

\* the same for the trackers whose window is one hour
HourOffsets == {0, 1, 30 * MINUTE_MS}

HourInstants == {Epoch + h * HOUR_MS + o : h \in 0..MaxHour, o \in HourOffsets}

\* the instants at which the server is observed
ServerInstants ==
    {Epoch + q * QUARTER_MS + o : q \in 0..MaxServerQuarter, o \in {0, 7 * MINUTE_MS}}

\* Math.ceil(x / 1000 / 60)
CeilMinutes(x) == -((-x) \div MINUTE_MS)

-----------------------------------------------------------------------------
(* JavaScript values *)

\* null is the empty tuple, a number n is <<n>>
NULL == <<>>
Num(n) == <<n>>
Val(x) == x[1]
\* truthiness of a value that is null or a number
Truthy(x) == x # NULL /\ Val(x) # 0

\* Map.prototype: get/has, set, delete
Has(m, k) == k \in DOMAIN m
MapSet(m, k, v) == [x \in DOMAIN m \cup {k} |-> IF x = k THEN v ELSE m[x]]
MapDelete(m, k) == [x \in DOMAIN m \ {k} |-> m[x]]
EmptyMap == [x \in {} |-> NULL]

-----------------------------------------------------------------------------
(* LoginAttemptTracker *)

\* the identifier the tracker is called with
Identifiers == {"a@b.com"}

ATTEMPT_WINDOW_MS == 15 * 60 * 1000
LOCK_MS == 15 * 60 * 1000
MAX_ATTEMPTS == 5
LOGIN_STALE_MS == 60 * 60 * 1000

\* this.attempts.get(email) || { count: 0, firstAttempt: now, lockedUntil: null }
LoginRecordOrNew(m, email, t) ==
    IF Has(m, email) THEN m[email]
    ELSE [count |-> 0, firstAttempt |-> t, lockedUntil |-> NULL]

\* now - record.firstAttempt > 15 * 60 * 1000
AttemptWindowNeverPassed(t, firstAttempt) == FALSE
AttemptWindowPassed(t, firstAttempt) == t - firstAttempt > ATTEMPT_WINDOW_MS

\* the reset-or-increment step of recordFailedAttempt
LoginCounted(r, t) ==
    IF AttemptWindowPassed(t, r.firstAttempt)
    THEN [count |-> 1, firstAttempt |-> t, lockedUntil |-> NULL]
    ELSE [r EXCEPT !.count = r.count + 1]

\* if (record.count >= 5) record.lockedUntil = now + 15 * 60 * 1000
LoginLockedLate(r, t) ==
    IF r.count > MAX_ATTEMPTS THEN [r EXCEPT !.lockedUntil = Num(t + LOCK_MS)] ELSE r
LoginLocked(r, t) ==
    IF r.count >= MAX_ATTEMPTS THEN [r EXCEPT !.lockedUntil = Num(t + LOCK_MS)] ELSE r

\* the record recordFailedAttempt stores
RecordFailedAttemptRecord(m, email, t) ==
    LoginLocked(LoginCounted(LoginRecordOrNew(m, email, t), t), t)

\* the value recordFailedAttempt returns
RecordFailedAttemptResult(r, t) ==
    [isLocked |-> Truthy(r.lockedUntil) /\ t < Val(r.lockedUntil),
     attemptsLeft |-> IF MAX_ATTEMPTS - r.count > 0 THEN MAX_ATTEMPTS - r.count ELSE 0,
     lockedUntil |-> r.lockedUntil]

\* the value isLocked returns: false, {locked: true, remainingTime} or {locked: false}
IsLockedResult(m, email, t) ==
    IF ~Has(m, email) \/ ~Truthy(m[email].lockedUntil)
    THEN [object |-> FALSE, locked |-> FALSE, remainingTime |-> NULL]
    ELSE IF t < Val(m[email].lockedUntil)
    THEN [object |-> TRUE, locked |-> TRUE,
          remainingTime |-> Num(CeilMinutes(Val(m[email].lockedUntil) - t))]
    ELSE [object |-> TRUE, locked |-> FALSE, remainingTime |-> NULL]

\* the map isLocked leaves: the record is deleted when its lock has expired
IsLockedKeep(m, email, t) == m
IsLockedMap(m, email, t) ==
    IF Has(m, email) /\ Truthy(m[email].lockedUntil) /\ ~(t < Val(m[email].lockedUntil))
    THEN MapDelete(m, email)
    ELSE m

\* the map cleanup leaves
LoginCleanupEager(m, t) == EmptyMap
LoginCleanupMap(m, t) ==
    [x \in {k \in DOMAIN m : ~(t - m[k].firstAttempt > LOGIN_STALE_MS)} |-> m[x]]

-----------------------------------------------------------------------------------------------------------------------------------------------------
(* PasswordResetTracker *)

RESET_WINDOW_MS == 60 * 60 * 1000
RESET_MAX == 3

\* this.requests.get(email) || { count: 0, windowStart: now }
ResetRecordOrNew(m, email, t) ==
    IF Has(m, email) THEN m[email] ELSE [count |-> 0, windowStart |-> t]

\* now - record.windowStart > 60 * 60 * 1000
ResetWindowPassed(t, windowStart) == t - windowStart > RESET_WINDOW_MS

\* the reset step of canRequest (it writes into the record object)
ResetWindowed(r, t) ==
    IF ResetWindowPassed(t, r.windowStart) THEN [count |-> 0, windowStart |-> t] ELSE r

\* record.count >= 3
ResetAtLimitLate(r) == r.count > RESET_MAX
ResetAtLimit(r) == r.count >= RESET_MAX

\* the value canRequest returns
ResetCanRequestResult(m, email, t) ==
    LET r == ResetWindowed(ResetRecordOrNew(m, email, t), t)
    IN  IF ResetAtLimit(r)
        THEN [allowed |-> FALSE,
              remainingTime |-> CeilMinutes(r.windowStart + RESET_WINDOW_MS - t)]
        ELSE [allowed |-> TRUE, attemptsLeft |-> RESET_MAX - (r.count + 1)]

\* the map canRequest leaves: a denied call stores nothing, but the reset step has
\* written into the record object if the map held one
ResetCanRequestCounting(m, email, t) ==
    LET r == ResetWindowed(ResetRecordOrNew(m, email, t), t)
    IN  MapSet(m, email, [r EXCEPT !.count = r.count + 1])
ResetCanRequestMap(m, email, t) ==
    LET r == ResetWindowed(ResetRecordOrNew(m, email, t), t)
    IN  IF ResetAtLimit(r)
        THEN IF Has(m, email) THEN MapSet(m, email, r) ELSE m
        ELSE MapSet(m, email, [r EXCEPT !.count = r.count + 1])

\* the map cleanup leaves
ResetCleanupMap(m, t) ==
    [x \in {k \in DOMAIN m : ~(t - m[k].windowStart > RESET_WINDOW_MS)} |-> m[x]]

-----------------------------------------------------------------------------
(* GeneralRateLimiter *)

Addresses == {"10.0.0.1"}

\* constructor(maxRequests = 100, windowMs = 15 * 60 * 1000)
DEFAULT_MAX_REQUESTS == 100
DEFAULT_WINDOW_MS == 15 * 60 * 1000

\* this.requests.get(ip) || { count: 0, windowStart: now }
GeneralRecordOrNew(m, ip, t) ==
    IF Has(m, ip) THEN m[ip] ELSE [count |-> 0, windowStart |-> t]

\* now - record.windowStart > this.windowMs
GeneralWindowPassedEarly(t, windowStart, w) == t - windowStart >= w
GeneralWindowPassed(t, windowStart, w) == t - windowStart > w

\* the reset step of canRequest (it writes into the record object)
GeneralWindowed(r, t, w) ==
    IF GeneralWindowPassed(t, r.windowStart, w) THEN [count |-> 0, windowStart |-> t] ELSE r

\* record.count >= this.maxRequests
GeneralAtLimitLate(r, max) == r.count > max
GeneralAtLimit(r, max) == r.count >= max

\* the value canRequest returns
GeneralCanRequestResult(m, ip, t, max, w) ==
    LET r == GeneralWindowed(GeneralRecordOrNew(m, ip, t), t, w)
    IN  IF GeneralAtLimit(r, max)
        THEN [allowed |-> FALSE,
              remainingTime |-> CeilMinutes(r.windowStart + w - t),
              limit |-> max]
        ELSE [allowed |-> TRUE, remaining |-> max - (r.count + 1)]

\* the map canRequest leaves
GeneralCanRequestDropped(m, ip, t, max, w) == m
GeneralCanRequestMap(m, ip, t, max, w) ==
    LET r == GeneralWindowed(GeneralRecordOrNew(m, ip, t), t, w)
    IN  IF GeneralAtLimit(r, max)
        THEN IF Has(m, ip) THEN MapSet(m, ip, r) ELSE m
        ELSE MapSet(m, ip, [r EXCEPT !.count = r.count + 1])

\* the map cleanup leaves
GeneralCleanupMap(m, t, w) ==
    [x \in {k \in DOMAIN m : ~(t - m[k].windowStart > w)} |-> m[x]]

-----------------------------------------------------------------------------
(* CSRFProtection *)

\* req.session.id, or the hash of address and user agent
SessionKeys == {"K", "K2"}

\* the values crypto.randomBytes(32).toString('hex') may return
TokenValues == {"c0ffee", "decade"}

CSRF_LIFETIME_MS == 60 * 60 * 1000

\* this.tokens.set(sessionId, { token, createdAt: Date.now() })
GenerateTokenKeep(m, sessionId, token, t) ==
    IF Has(m, sessionId) THEN m ELSE MapSet(m, sessionId, [token |-> token, createdAt |-> t])
GenerateTokenMap(m, sessionId, token, t) ==
    MapSet(m, sessionId, [token |-> token, createdAt |-> t])

\* now - record.createdAt > 60 * 60 * 1000
CsrfExpiredNever(t, createdAt) == FALSE
CsrfExpired(t, createdAt) == t - createdAt > CSRF_LIFETIME_MS

\* record.token === token
CsrfSameAny(stored, token) == TRUE
CsrfSame(stored, token) == stored = token

\* the value verifyToken returns
VerifyTokenResult(m, sessionId, token, t) ==
    IF ~Has(m, sessionId) THEN FALSE
    ELSE IF CsrfExpired(t, m[sessionId].createdAt) THEN FALSE
    ELSE CsrfSame(m[sessionId].token, token)

\* the map verifyToken leaves: an expired record is deleted
VerifyTokenOnce(m, sessionId, t) == MapDelete(m, sessionId)
VerifyTokenMap(m, sessionId, t) ==
    IF Has(m, sessionId) /\ CsrfExpired(t, m[sessionId].createdAt)
    THEN MapDelete(m, sessionId)
    ELSE m

\* the map cleanup leaves
CsrfCleanupMap(m, t) ==
    [x \in {k \in DOMAIN m : ~(t - m[k].createdAt > CSRF_LIFETIME_MS)} |-> m[x]]

-----------------------------------------------------------------------------
(* TokenBlacklist *)

\* the tokens and the expiry timestamps handed to the blacklist directly
OpaqueTokens == {"T"}

\* now > expiresAt
BlacklistExpiredEarly(t, expiresAt) == t >= expiresAt
BlacklistExpired(t, expiresAt) == t > expiresAt

\* add: this.blacklistedTokens.set(token, expiresAt)
BlacklistAddMap(m, token, expiresAt) == MapSet(m, token, expiresAt)

\* isBlacklisted: the value returned (an absent or zero expiresAt is falsy)
IsBlacklistedResult(m, token, t) ==
    IF ~Has(m, token) THEN FALSE
    ELSE IF m[token] = 0 THEN FALSE
    ELSE ~BlacklistExpired(t, m[token])

\* isBlacklisted: the map it leaves (an expired entry is deleted)
IsBlacklistedMap(m, token, t) ==
    IF Has(m, token) /\ m[token] # 0 /\ BlacklistExpired(t, m[token])
    THEN MapDelete(m, token)
    ELSE m

\* cleanup: every expired entry is deleted
BlacklistCleanupMap(m, t) ==
    [x \in {y \in DOMAIN m : ~BlacklistExpired(t, m[y])} |-> m[x]]

-----------------------------------------------------------------------------
(* rateLimitMiddleware and the routes of server.js *)

\* rateLimitMiddleware: the headers set on a request that is let through:
\* result.limit || generalLimiter.maxRequests, result.remaining || 0
RateLimitHeadersStale(limit, max) ==
    IF limit.allowed THEN [limit |-> max, remaining |-> limit.remaining + 1] ELSE NULL
RateLimitHeaders(limit, max) ==
    IF limit.allowed THEN [limit |-> max, remaining |-> limit.remaining] ELSE NULL

\* the paths of the routes that server.js answers itself, and one it does not know
PlainPaths == {"/api/render-health", "/", "/api/health", "/nowhere"}

\* the response to GET path: 429 from rateLimitMiddleware, else 200 from the
\* handler of the route, or 404 from the handler of unknown routes
PlainResponseUnlimited(limit, path) ==
    IF path = "/nowhere" THEN [status |-> 404, by |-> "notFound"]
    ELSE [status |-> 200, by |-> path]
PlainResponse(limit, path) ==
    IF ~limit.allowed
    THEN [status |-> 429, by |-> "rateLimitMiddleware", retryAfter |-> limit.remainingTime]
    ELSE IF path = "/nowhere" THEN [status |-> 404, by |-> "notFound"]
    ELSE [status |-> 200, by |-> path]

\* the response to GET /api/csrf-token
CsrfTokenResponse(limit, token) ==
    IF ~limit.allowed
    THEN [status |-> 429, by |-> "rateLimitMiddleware", retryAfter |-> limit.remainingTime]
    ELSE [status |-> 200, by |-> "getCSRFTokenEndpoint", csrfToken |-> token]

-----------------------------------------------------------------------------
(* JSON Web Tokens (jsonwebtoken), verifyToken, getProfile, logout *)

\* expiresIn: '7d', in seconds and in milliseconds
TOKEN_LIFETIME_S == 7 * 24 * 60 * 60
WEEK_MS == TOKEN_LIFETIME_S * 1000

\* jwt.sign(payload, JWT_SECRET, {expiresIn: '7d'}) at the instant t: iat and exp
\* are in seconds
SignToken(email, t) ==
    [sub |-> email, iat |-> t \div 1000, exp |-> (t \div 1000) + TOKEN_LIFETIME_S,
     signed |-> TRUE]

\* a token that was not signed with JWT_SECRET
ForgedToken ==
    [sub |-> "a@b.com", iat |-> Epoch \div 1000,
     exp |-> (Epoch \div 1000) + 4 * TOKEN_LIFETIME_S, signed |-> FALSE]

\* jwt.verify(token, JWT_SECRET): the error it throws, or "ok"
JwtVerify(token, t) ==
    IF ~token.signed THEN "JsonWebTokenError"
    ELSE IF t \div 1000 >= token.exp THEN "TokenExpiredError"
    ELSE "ok"

\* logout: decoded.exp * 1000
LogoutExpiresAtSeconds(token) == token.exp
LogoutExpiresAt(token) == token.exp * 1000

\* verifyToken: the branch a request ends in; header is NULL or carries a token
AuthOutcome(m, header, t) ==
    IF header = NULL THEN "noToken"
    ELSE IF IsBlacklistedResult(m, Val(header), t) THEN "blacklisted"
    ELSE IF JwtVerify(Val(header), t) = "JsonWebTokenError" THEN "invalid"
    ELSE IF JwtVerify(Val(header), t) = "TokenExpiredError" THEN "expired"
    ELSE "ok"

\* verifyToken: the calls it makes, in the order it makes them
AuthSteps(m, header, t) ==
    IF header = NULL THEN <<>>
    ELSE IF IsBlacklistedResult(m, Val(header), t) THEN <<"isBlacklisted">>
    ELSE IF JwtVerify(Val(header), t) # "ok" THEN <<"isBlacklisted", "jwt.verify">>
    ELSE <<"isBlacklisted", "jwt.verify", "next">>

\* verifyToken: the blacklist it leaves
AuthBlacklist(m, header, t) ==
    IF header = NULL THEN m ELSE IsBlacklistedMap(m, Val(header), t)

\* getProfile: 404 if the user of the token is gone
ProfileStatus(db, token) == IF Has(db, token.sub) THEN 200 ELSE 404

\* the response to a request on a route behind verifyToken
AuthResponse(limit, outcome, handler, status) ==
    IF ~limit.allowed
    THEN [status |-> 429, by |-> "rateLimitMiddleware", retryAfter |-> limit.remainingTime]
    ELSE IF outcome # "ok"
    THEN [status |-> 401, by |-> "verifyToken", outcome |-> outcome]
    ELSE [status |-> status, by |-> handler, outcome |-> outcome]

-----------------------------------------------------------------------------
(* POST /api/auth/login: sanitizeRequestMiddleware, rateLimitMiddleware,     *)
(* loginRateLimitMiddleware, authController.login                            *)

\* the email and password fields a request body may carry ("" is a missing email)
EmailInputs == {"a@b.com", "A@b.com", " a@b.com", "x@y.com", "nope", ""}
PasswordInputs == {"right", "wrong"}

\* sanitizeInput: validator.escape, removal of $ { } [ ], trim
SanitizeInput(v) == IF v = " a@b.com" THEN "a@b.com" ELSE v

\* String.prototype.toLowerCase
ToLowerCase(v) == IF v = "A@b.com" THEN "a@b.com" ELSE v

\* validator.isEmail
IsValidEmail(v) == v \in {"a@b.com", "A@b.com", "x@y.com"}

\* bcrypt.hash and bcrypt.compare
Hash(password) == <<"bcrypt", password>>
ComparePassword(candidate, hash) == Hash(candidate) = hash

\* the user documents the collection holds when the process starts
SeedUsuarios ==
    [e \in {"a@b.com"} |->
        [password |-> Hash("right"), emailVerificado |-> TRUE, activo |-> TRUE,
         ultimoAcceso |-> NULL, codigoRecuperacion |-> NULL,
         codigoRecuperacionExpira |-> NULL]]

\* authController.login: the branch a request ends in
LoginOutcome(db, email, password) ==
    IF email = "" \/ password = "" THEN "missing"
    ELSE IF ~IsValidEmail(email) THEN "invalidEmail"
    ELSE IF ~Has(db, ToLowerCase(email)) THEN "noUser"
    ELSE IF ~db[ToLowerCase(email)].emailVerificado THEN "unverified"
    ELSE IF ~db[ToLowerCase(email)].activo THEN "inactive"
    ELSE IF ~ComparePassword(password, db[ToLowerCase(email)].password) THEN "badPassword"
    ELSE "ok"

\* the HTTP status of each branch
LoginStatus(outcome) ==
    CASE outcome \in {"missing", "invalidEmail"} -> 400
      [] outcome \in {"noUser", "unverified", "badPassword"} -> 401
      [] outcome = "inactive" -> 403
      [] outcome = "ok" -> 200

\* the collection authController.login leaves: ultimoAcceso is set on success
LoginStore(db, email, password, t) ==
    IF LoginOutcome(db, email, password) = "ok"
    THEN [db EXCEPT ![ToLowerCase(email)].ultimoAcceso = Num(t)]
    ELSE db

\* the calls of the login tracker that authController.login makes: none
LoginTrackerCalls(m, email, outcome, t) == m

\* loginRateLimitMiddleware: the lock status it reads (none for a missing email)
LoginLockCheckSkipped(m, email, t) ==
    [object |-> FALSE, locked |-> FALSE, remainingTime |-> NULL]
LoginLockStatus(m, email, t) ==
    IF email = ""
    THEN [object |-> FALSE, locked |-> FALSE, remainingTime |-> NULL]
    ELSE IsLockedResult(m, email, t)

\* the response to POST /api/auth/login and the part of the chain that sent it
LoginResponse(limit, lock, outcome) ==
    IF ~limit.allowed
    THEN [status |-> 429, by |-> "rateLimitMiddleware", retryAfter |-> limit.remainingTime]
    ELSE IF lock.locked
    THEN [status |-> 429, by |-> "loginRateLimitMiddleware",
          lockedUntil |-> Val(lock.remainingTime)]
    ELSE [status |-> LoginStatus(outcome), by |-> "login", outcome |-> outcome]

-----------------------------------------------------------------------------
(* POST /api/auth/request-password-reset: passwordResetRateLimitMiddleware,  *)
(* authController.requestPasswordReset                                      *)

\* the email field a request body may carry ("" is a missing email)
ResetEmailInputs == {"a@b.com", "x@y.com", ""}

\* Usuario.generateRecoveryCode: a six-digit code, valid for 15 minutes
RecoveryCodes == {"123456"}
RECOVERY_CODE_MS == 15 * MINUTE_MS

\* passwordResetRateLimitMiddleware: the result it reads (none for a missing email)
ResetMiddlewareResult(m, email, t) ==
    IF email = "" THEN [allowed |-> TRUE] ELSE ResetCanRequestResult(m, email, t)

\* passwordResetRateLimitMiddleware: the tracker it leaves
ResetMiddlewareMap(m, email, t) ==
    IF email = "" THEN m ELSE ResetCanRequestMap(m, email, t)

\* requestPasswordReset: the branch a request ends in
ResetRequestOutcome(db, email) ==
    IF email = "" \/ ~IsValidEmail(email) THEN "invalid"
    ELSE IF ~Has(db, ToLowerCase(email)) THEN "noUser"
    ELSE "sent"

\* requestPasswordReset: the status and the body of each branch
ResetRequestStatus(outcome) == IF outcome = "invalid" THEN 400 ELSE 200

ResetRequestBodyTelling(outcome) ==
    IF outcome = "invalid"
    THEN [success |-> FALSE, message |-> "Email válido es requerido"]
    ELSE IF outcome = "noUser"
    THEN [success |-> FALSE, message |-> "Usuario no encontrado"]
    ELSE [success |-> TRUE,
          message |-> "Si el email existe, recibirás un código de recuperación"]
ResetRequestBody(outcome) ==
    IF outcome = "invalid"
    THEN [success |-> FALSE, message |-> "Email válido es requerido"]
    ELSE [success |-> TRUE,
          message |-> "Si el email existe, recibirás un código de recuperación"]

\* requestPasswordReset: the collection it leaves
ResetRequestStore(db, email, code, t) ==
    IF ResetRequestOutcome(db, email) = "sent"
    THEN [db EXCEPT ![ToLowerCase(email)].codigoRecuperacion = Num(code),
                    ![ToLowerCase(email)].codigoRecuperacionExpira = Num(t + RECOVERY_CODE_MS)]
    ELSE db

\* the response to POST /api/auth/request-password-reset: what the client sees
ResetRequestResponse(limit, result, outcome) ==
    IF ~limit.allowed
    THEN [status |-> 429, by |-> "rateLimitMiddleware",
          body |-> [success |-> FALSE, retryAfter |-> limit.remainingTime]]
    ELSE IF ~result.allowed
    THEN [status |-> 429, by |-> "passwordResetRateLimitMiddleware",
          body |-> [success |-> FALSE, retryAfter |-> result.remainingTime]]
    ELSE [status |-> ResetRequestStatus(outcome), by |-> "requestPasswordReset",
          body |-> ResetRequestBody(outcome)]

-----------------------------------------------------------------------------
(* What a caller of the login tracker has seen so far, per identifier:      *)
(* the calls of recordFailedAttempt since the identifier was last cleared   *)
(* (or since construction).  Written by the operations, never read by them. *)

\* n: the number of recordFailedAttempt calls, counted up to MAX_ATTEMPTS + 1;
\* first, last: when the first and the latest of them were made (kept while n <= MAX_ATTEMPTS);
\* lock: the lockedUntil the latest of them returned;
\* cleared: the n at the time clearAttempts was called, until the next recordFailedAttempt
NothingSeen == [n |-> 0, first |-> NULL, last |-> NULL, lock |-> NULL, cleared |-> NULL]

SeenFailed(h, t, result) ==
    IF h.n >= MAX_ATTEMPTS
    THEN [n |-> MAX_ATTEMPTS + 1, first |-> NULL, last |-> NULL,
          lock |-> result.lockedUntil, cleared |-> NULL]
    ELSE [n |-> h.n + 1, first |-> IF h.n = 0 THEN Num(t) ELSE h.first, last |-> Num(t),
          lock |-> result.lockedUntil, cleared |-> NULL]

SeenCleared(h) ==
    [NothingSeen EXCEPT !.cleared = IF h.cleared # NULL THEN h.cleared ELSE Num(h.n)]

-----------------------------------------------------------------------------
(* Operations of the login tracker *)

\* a step that returns nothing to a caller
NoCall == [op |-> "none", key |-> "", value |-> NULL, before |-> NothingSeen, had |-> FALSE]

\* clearAttempts: this.attempts.delete(email)
ClearAttemptsKeep(m, email) == m
ClearAttemptsMap(m, email) == MapDelete(m, email)

RecordFailedAttempt(email) ==
    /\ IF Has(attempts, email) THEN attempts[email].count < MaxCount ELSE TRUE
    /\ LET r == RecordFailedAttemptRecord(attempts, email, now)
           result == RecordFailedAttemptResult(r, now)
       IN  /\ attempts' = MapSet(attempts, email, r)
           /\ ret' = [op |-> "recordFailedAttempt", key |-> email, value |-> result,
                      before |-> seen[email], had |-> Has(attempts, email)]
           /\ seen' = [seen EXCEPT ![email] = SeenFailed(@, now, result)]
    /\ UNCHANGED <<now, resetVars, generalVars, csrfVars, httpVars, blacklistVars, inflight, recent, unswept>>

IsLocked(email) ==
    /\ attempts' = IsLockedMap(attempts, email, now)
    /\ ret' = [op |-> "isLocked", key |-> email,
               value |-> IsLockedResult(attempts, email, now), before |-> seen[email],
               had |-> Has(attempts, email)]
    /\ UNCHANGED <<now, seen, resetVars, generalVars, csrfVars, httpVars, blacklistVars, inflight, recent, unswept>>

ClearAttempts(email) ==
    /\ attempts' = ClearAttemptsMap(attempts, email)
    /\ ret' = [op |-> "clearAttempts", key |-> email, value |-> NULL,
               before |-> seen[email], had |-> Has(attempts, email)]
    /\ seen' = [seen EXCEPT ![email] = SeenCleared(@)]
    /\ UNCHANGED <<now, resetVars, generalVars, csrfVars, httpVars, blacklistVars, inflight, recent, unswept>>

\* the sweep run by setInterval
LoginCleanup ==
    /\ attempts' = LoginCleanupMap(attempts, now)
    /\ ret' = NoCall
    /\ UNCHANGED <<now, seen, resetVars, generalVars, csrfVars, httpVars, blacklistVars, inflight, recent, unswept>>

-----------------------------------------------------------------------------
(* Operations of the password-reset tracker *)

\* the history keeps the times of the latest 2 * RESET_MAX allowed requests
Remembered(times, t) ==
    LET all == Append(times, t)
    IN  IF Len(all) > 2 * RESET_MAX THEN Tail(all) ELSE all

ResetCanRequest(email) ==
    /\ LET result == ResetCanRequestResult(resetRequests, email, now)
       IN  /\ ret' = [op |-> "reset.canRequest", key |-> email, value |-> result,
                      before |-> allowedAt[email], had |-> Has(resetRequests, email)]
           /\ allowedAt' = IF result.allowed
                           THEN [allowedAt EXCEPT ![email] = Remembered(@, now)]
                           ELSE allowedAt
    /\ resetRequests' = ResetCanRequestMap(resetRequests, email, now)
    /\ UNCHANGED <<now, loginVars, generalVars, csrfVars, httpVars, blacklistVars, inflight, recent, unswept>>

\* the sweep run by setInterval
ResetCleanup ==
    /\ resetRequests' = ResetCleanupMap(resetRequests, now)
    /\ ret' = NoCall
    /\ UNCHANGED <<now, allowedAt, loginVars, generalVars, csrfVars, httpVars, blacklistVars, inflight, recent, unswept>>

-----------------------------------------------------------------------------
(* Operations of the general rate limiter *)

\* the history of an address: when the first request of its current window was made
\* and the number of requests made in that window, counted up to maxRequests + 2
NoWindow == [start |-> NULL, calls |-> 0]

WindowAfterCall(g, t, max, w) ==
    IF g.start = NULL \/ t - Val(g.start) > w
    THEN [start |-> Num(t), calls |-> 1]
    ELSE [g EXCEPT !.calls = IF g.calls < max + 2 THEN g.calls + 1 ELSE g.calls]

GeneralCanRequest(ip) ==
    /\ ret' = [op |-> "general.canRequest", key |-> ip,
               value |-> GeneralCanRequestResult(ipRequests, ip, now, maxRequests, windowMs),
               before |-> ipWindow[ip], had |-> Has(ipRequests, ip)]
    /\ ipRequests' = GeneralCanRequestMap(ipRequests, ip, now, maxRequests, windowMs)
    /\ ipWindow' = [ipWindow EXCEPT ![ip] = WindowAfterCall(@, now, maxRequests, windowMs)]
    /\ UNCHANGED <<now, maxRequests, windowMs, loginVars, resetVars, csrfVars, httpVars, blacklistVars, inflight, recent, unswept>>

\* the sweep run by setInterval
GeneralCleanup ==
    /\ ipRequests' = GeneralCleanupMap(ipRequests, now, windowMs)
    /\ ret' = NoCall
    /\ UNCHANGED <<now, maxRequests, windowMs, ipWindow, loginVars, resetVars, csrfVars, httpVars, blacklistVars, inflight, recent, unswept>>

\* the log of a caller: the entries no older than w, and one more allowed call at t
RECURSIVE Since(_, _)
Since(log, from) ==
    IF log = <<>> THEN <<>>
    ELSE IF log[1].at < from THEN Since(Tail(log), from)
    ELSE log

Logged(log, t, w, allowed) ==
    LET kept == Since(log, t - w)
    IN  IF ~allowed THEN kept
        ELSE IF kept # <<>> /\ kept[Len(kept)].at = t
        THEN [kept EXCEPT ![Len(kept)].n = @ + 1]
        ELSE Append(kept, [at |-> t, n |-> 1])

RECURSIVE Total(_)
Total(log) == IF log = <<>> THEN 0 ELSE log[1].n + Total(Tail(log))

\* canRequest(ip) called by a caller that logs the calls it was allowed
LoggedCanRequest(ip) ==
    /\ LET result == GeneralCanRequestResult(ipRequests, ip, now, maxRequests, windowMs)
       IN  /\ ret' = [op |-> "general.canRequest", key |-> ip, value |-> result,
                      before |-> ipWindow[ip], had |-> Has(ipRequests, ip)]
           /\ recent' = [recent EXCEPT ![ip] = Logged(@, now, windowMs, result.allowed)]
    /\ ipRequests' = GeneralCanRequestMap(ipRequests, ip, now, maxRequests, windowMs)
    /\ ipWindow' = [ipWindow EXCEPT ![ip] = WindowAfterCall(@, now, maxRequests, windowMs)]
    /\ UNCHANGED <<now, maxRequests, windowMs, loginVars, resetVars, csrfVars, httpVars,
                   blacklistVars, inflight, unswept>>

-----------------------------------------------------------------------------
(* Operations of the CSRF token store *)

\* the history of a session key: the token generateToken returned last, when it did,
\* and whether a verifyToken has found the stored token expired since
NoToken == [issued |-> FALSE, token |-> "", at |-> 0, expired |-> FALSE]

GenerateToken(sessionId) ==
    /\ \E token \in TokenValues :
          /\ tokens' = GenerateTokenMap(tokens, sessionId, token, now)
          /\ ret' = [op |-> "csrf.generateToken", key |-> sessionId, value |-> token,
                     before |-> csrfSeen[sessionId], had |-> Has(tokens, sessionId)]
          /\ csrfSeen' = [csrfSeen EXCEPT ![sessionId] =
                            [issued |-> TRUE, token |-> token, at |-> now, expired |-> FALSE]]
    /\ UNCHANGED <<now, loginVars, resetVars, generalVars, httpVars, blacklistVars, inflight, recent, unswept>>

VerifyToken(sessionId) ==
    /\ \E token \in TokenValues :
          ret' = [op |-> "csrf.verifyToken", key |-> sessionId,
                  value |-> VerifyTokenResult(tokens, sessionId, token, now),
                  before |-> csrfSeen[sessionId], had |-> Has(tokens, sessionId),
                  candidate |-> token]
    /\ tokens' = VerifyTokenMap(tokens, sessionId, now)
    /\ csrfSeen' = [csrfSeen EXCEPT ![sessionId].expired =
                      @ \/ (Has(tokens, sessionId) /\ ~Has(tokens', sessionId))]
    /\ UNCHANGED <<now, loginVars, resetVars, generalVars, httpVars, blacklistVars, inflight, recent, unswept>>

\* invalidateToken: this.tokens.delete(sessionId)
InvalidateToken(sessionId) ==
    /\ tokens' = MapDelete(tokens, sessionId)
    /\ ret' = [op |-> "csrf.invalidateToken", key |-> sessionId, value |-> NULL,
               before |-> csrfSeen[sessionId], had |-> Has(tokens, sessionId)]
    /\ UNCHANGED <<now, csrfSeen, loginVars, resetVars, generalVars, httpVars, blacklistVars, inflight, recent, unswept>>

\* the sweep run by setInterval
CsrfCleanup ==
    /\ tokens' = CsrfCleanupMap(tokens, now)
    /\ ret' = NoCall
    /\ UNCHANGED <<now, csrfSeen, loginVars, resetVars, generalVars, httpVars, blacklistVars, inflight, recent, unswept>>

-----------------------------------------------------------------------------
(* Operations of the token blacklist *)

\* what has been seen of a token: the expiresAt of its latest add, if any
Revocation(token) ==
    IF Has(revoked, token) THEN Num(revoked[token]) ELSE NULL

BlacklistAdd(token, expiresAt) ==
    /\ blacklistedTokens' = BlacklistAddMap(blacklistedTokens, token, expiresAt)
    /\ revoked' = MapSet(revoked, token, expiresAt)
    /\ ret' = [op |-> "blacklist.add", key |-> token, value |-> NULL,
               before |-> Revocation(token), had |-> Has(blacklistedTokens, token)]
    /\ UNCHANGED <<now, loginVars, resetVars, generalVars, csrfVars, httpVars, inflight, recent, unswept>>

IsBlacklisted(token) ==
    /\ ret' = [op |-> "blacklist.isBlacklisted", key |-> token,
               value |-> IsBlacklistedResult(blacklistedTokens, token, now),
               before |-> Revocation(token), had |-> Has(blacklistedTokens, token)]
    /\ blacklistedTokens' = IsBlacklistedMap(blacklistedTokens, token, now)
    /\ UNCHANGED <<now, revoked, loginVars, resetVars, generalVars, csrfVars, httpVars, inflight, recent, unswept>>

\* the sweep run by setInterval
BlacklistCleanup ==
    /\ blacklistedTokens' = BlacklistCleanupMap(blacklistedTokens, now)
    /\ ret' = NoCall
    /\ UNCHANGED <<now, revoked, loginVars, resetVars, generalVars, csrfVars, httpVars, inflight, recent, unswept>>

-----------------------------------------------------------------------------
(* Concurrently handled requests that record a failed attempt: the handler   *)
(* of each awaits (a query, a hash comparison) and is resumed later; between *)
(* two suspension points a handler runs to completion                        *)

Workers == 1..MaxWorkers

Idle == [pc |-> "idle", email |-> "", snap |-> EmptyMap]

\* the tracker that recordFailedAttempt reads when the handler calls it: the
\* tracker as it is then, since the call is synchronous
TrackerReadAtStart(current, atStart) == atStart
TrackerRead(current, atStart) == current

\* the handler of request w starts and suspends at its first await
BeginFailedLogin(w, email) ==
    /\ inflight[w].pc = "idle"
    /\ inflight' = [inflight EXCEPT ![w] =
                       [pc |-> "awaiting", email |-> email, snap |-> attempts]]
    /\ ret' = NoCall
    /\ UNCHANGED <<now, loginVars, resetVars, generalVars, csrfVars, httpVars, blacklistVars, recent, unswept>>

\* the handler of request w is resumed and calls recordFailedAttempt(email)
ResumeFailedLogin(w) ==
    /\ inflight[w].pc = "awaiting"
    /\ LET email == inflight[w].email
           r == RecordFailedAttemptRecord(TrackerRead(attempts, inflight[w].snap), email, now)
           result == RecordFailedAttemptResult(r, now)
       IN  /\ attempts' = MapSet(attempts, email, r)
           /\ ret' = [op |-> "recordFailedAttempt", key |-> email, value |-> result,
                      before |-> seen[email], had |-> Has(attempts, email)]
           /\ seen' = [seen EXCEPT ![email] = SeenFailed(@, now, result)]
    /\ inflight' = [inflight EXCEPT ![w].pc = "done"]
    /\ UNCHANGED <<now, resetVars, generalVars, csrfVars, httpVars, blacklistVars, recent, unswept>>

-----------------------------------------------------------------------------
(* The tracker operations called on the trackers and, alongside, on copies   *)
(* of the trackers that no sweep ever touches                                *)

NeverSwept ==
    [login |-> EmptyMap, reset |-> EmptyMap, general |-> EmptyMap, csrf |-> EmptyMap,
     blacklist |-> EmptyMap]

\* a call of a tracker: what it returned, and what it returned on the copy
TwinCall(op, key, value, copyValue, had, copyHad) ==
    [op |-> op, key |-> key, value |-> value, before |-> NothingSeen, had |-> had,
     copyValue |-> copyValue, copyHad |-> copyHad]

TwinRecordFailedAttempt(email) ==
    /\ IF Has(attempts, email) THEN attempts[email].count < MaxCount ELSE TRUE
    /\ IF Has(unswept.login, email) THEN unswept.login[email].count < MaxCount ELSE TRUE
    /\ LET r == RecordFailedAttemptRecord(attempts, email, now)
           c == RecordFailedAttemptRecord(unswept.login, email, now)
       IN  /\ attempts' = MapSet(attempts, email, r)
           /\ unswept' = [unswept EXCEPT !.login = MapSet(@, email, c)]
           /\ ret' = TwinCall("recordFailedAttempt", email,
                              RecordFailedAttemptResult(r, now),
                              RecordFailedAttemptResult(c, now),
                              Has(attempts, email), Has(unswept.login, email))
    /\ UNCHANGED <<now, seen, resetVars, generalVars, csrfVars, httpVars, blacklistVars,
                   inflight, recent>>

TwinIsLocked(email) ==
    /\ attempts' = IsLockedMap(attempts, email, now)
    /\ unswept' = [unswept EXCEPT !.login = IsLockedMap(@, email, now)]
    /\ ret' = TwinCall("isLocked", email, IsLockedResult(attempts, email, now),
                       IsLockedResult(unswept.login, email, now),
                       Has(attempts, email), Has(unswept.login, email))
    /\ UNCHANGED <<now, seen, resetVars, generalVars, csrfVars, httpVars, blacklistVars,
                   inflight, recent>>

TwinClearAttempts(email) ==
    /\ attempts' = ClearAttemptsMap(attempts, email)
    /\ unswept' = [unswept EXCEPT !.login = ClearAttemptsMap(@, email)]
    /\ ret' = TwinCall("clearAttempts", email, NULL, NULL,
                       Has(attempts, email), Has(unswept.login, email))
    /\ UNCHANGED <<now, seen, resetVars, generalVars, csrfVars, httpVars, blacklistVars,
                   inflight, recent>>

TwinResetCanRequest(email) ==
    /\ resetRequests' = ResetCanRequestMap(resetRequests, email, now)
    /\ unswept' = [unswept EXCEPT !.reset = ResetCanRequestMap(@, email, now)]
    /\ ret' = TwinCall("reset.canRequest", email,
                       ResetCanRequestResult(resetRequests, email, now),
                       ResetCanRequestResult(unswept.reset, email, now),
                       Has(resetRequests, email), Has(unswept.reset, email))
    /\ UNCHANGED <<now, allowedAt, loginVars, generalVars, csrfVars, httpVars,
                   blacklistVars, inflight, recent>>

TwinGeneralCanRequest(ip) ==
    /\ ipRequests' = GeneralCanRequestMap(ipRequests, ip, now, maxRequests, windowMs)
    /\ unswept' = [unswept EXCEPT !.general =
                       GeneralCanRequestMap(@, ip, now, maxRequests, windowMs)]
    /\ ret' = TwinCall("general.canRequest", ip,
                       GeneralCanRequestResult(ipRequests, ip, now, maxRequests, windowMs),
                       GeneralCanRequestResult(unswept.general, ip, now, maxRequests, windowMs),
                       Has(ipRequests, ip), Has(unswept.general, ip))
    /\ UNCHANGED <<now, maxRequests, windowMs, ipWindow, loginVars, resetVars, csrfVars,
                   httpVars, blacklistVars, inflight, recent>>

TwinGenerateToken(sessionId) ==
    /\ \E token \in TokenValues :
          /\ tokens' = GenerateTokenMap(tokens, sessionId, token, now)
          /\ unswept' = [unswept EXCEPT !.csrf = GenerateTokenMap(@, sessionId, token, now)]
          /\ ret' = TwinCall("csrf.generateToken", sessionId, token, token,
                             Has(tokens, sessionId), Has(unswept.csrf, sessionId))
    /\ UNCHANGED <<now, csrfSeen, loginVars, resetVars, generalVars, httpVars,
                   blacklistVars, inflight, recent>>

TwinVerifyToken(sessionId) ==
    /\ \E token \in TokenValues :
          ret' = TwinCall("csrf.verifyToken", sessionId,
                          VerifyTokenResult(tokens, sessionId, token, now),
                          VerifyTokenResult(unswept.csrf, sessionId, token, now),
                          Has(tokens, sessionId), Has(unswept.csrf, sessionId))
    /\ tokens' = VerifyTokenMap(tokens, sessionId, now)
    /\ unswept' = [unswept EXCEPT !.csrf = VerifyTokenMap(@, sessionId, now)]
    /\ UNCHANGED <<now, csrfSeen, loginVars, resetVars, generalVars, httpVars,
                   blacklistVars, inflight, recent>>

TwinInvalidateToken(sessionId) ==
    /\ tokens' = MapDelete(tokens, sessionId)
    /\ unswept' = [unswept EXCEPT !.csrf = MapDelete(@, sessionId)]
    /\ ret' = TwinCall("csrf.invalidateToken", sessionId, NULL, NULL,
                       Has(tokens, sessionId), Has(unswept.csrf, sessionId))
    /\ UNCHANGED <<now, csrfSeen, loginVars, resetVars, generalVars, httpVars,
                   blacklistVars, inflight, recent>>

TwinBlacklistAdd(token, expiresAt) ==
    /\ blacklistedTokens' = BlacklistAddMap(blacklistedTokens, token, expiresAt)
    /\ unswept' = [unswept EXCEPT !.blacklist = BlacklistAddMap(@, token, expiresAt)]
    /\ ret' = TwinCall("blacklist.add", token, NULL, NULL,
                       Has(blacklistedTokens, token), Has(unswept.blacklist, token))
    /\ UNCHANGED <<now, revoked, loginVars, resetVars, generalVars, csrfVars, httpVars,
                   inflight, recent>>

TwinIsBlacklisted(token) ==
    /\ blacklistedTokens' = IsBlacklistedMap(blacklistedTokens, token, now)
    /\ unswept' = [unswept EXCEPT !.blacklist = IsBlacklistedMap(@, token, now)]
    /\ ret' = TwinCall("blacklist.isBlacklisted", token,
                       IsBlacklistedResult(blacklistedTokens, token, now),
                       IsBlacklistedResult(unswept.blacklist, token, now),
                       Has(blacklistedTokens, token), Has(unswept.blacklist, token))
    /\ UNCHANGED <<now, revoked, loginVars, resetVars, generalVars, csrfVars, httpVars,
                   inflight, recent>>

-----------------------------------------------------------------------------
(* Requests *)

\* the address has sent fewer than MaxBurst requests in its current window
MayRequest(ip) ==
    GeneralWindowed(GeneralRecordOrNew(ipRequests, ip, now), now, windowMs).count < MaxBurst

\* the login tracker driven by the verifications of the route: a failed one is
\* recorded, a successful one clears the identifier
LoginTrackerRecording(m, email, outcome, t) ==
    IF outcome \in {"noUser", "badPassword"}
    THEN MapSet(m, email, RecordFailedAttemptRecord(m, email, t))
    ELSE IF outcome = "ok" THEN ClearAttemptsMap(m, email)
    ELSE m

\* the history the claims about the login route read: the lock status that the
\* tracker driven by the route's verifications would report
ClaimedStatus(email) ==
    IF email \in Identifiers THEN IsLockedResult(claimed, email, now)
    ELSE [object |-> FALSE, locked |-> FALSE, remainingTime |-> NULL]

ClaimedAfter(email, reached, outcome) ==
    IF email \notin Identifiers THEN claimed
    ELSE IF ~reached THEN IsLockedMap(claimed, email, now)
    ELSE LoginTrackerRecording(IsLockedMap(claimed, email, now), email, outcome, now)

\* POST /api/auth/login from address ip with the body {email, password}
LoginRequest(ip, emailIn, passwordIn) ==
    /\ MayRequest(ip)
    /\ LET email == SanitizeInput(emailIn)
           password == SanitizeInput(passwordIn)
           limit == GeneralCanRequestResult(ipRequests, ip, now, maxRequests, windowMs)
           lock == LoginLockStatus(attempts, email, now)
           checked == IF limit.allowed /\ email # ""
                      THEN IsLockedMap(attempts, email, now) ELSE attempts
           outcome == LoginOutcome(usuarios, email, password)
           response == LoginResponse(limit, lock, outcome)
           reached == response.by = "login"
       IN  /\ ipRequests' = GeneralCanRequestMap(ipRequests, ip, now, maxRequests, windowMs)
           /\ ipWindow' = [ipWindow EXCEPT ![ip] =
                              WindowAfterCall(@, now, maxRequests, windowMs)]
           /\ attempts' = IF reached
                          THEN LoginTrackerCalls(checked, email, outcome, now)
                          ELSE checked
           /\ usuarios' = IF reached THEN LoginStore(usuarios, email, password, now)
                          ELSE usuarios
           /\ ret' = [op |-> "POST /api/auth/login", key |-> email, value |-> response,
                      before |-> ClaimedStatus(email), had |-> Has(attempts, email),
                      was |-> LoginRecordOrNew(attempts, email, now),
                      lockChecked |-> limit.allowed /\ email # "",
                      users |-> usuarios,
                      ip |-> ip, limit |-> limit,
                      headers |-> RateLimitHeaders(limit, maxRequests)]
           /\ claimed' = IF limit.allowed THEN ClaimedAfter(email, reached, outcome)
                         ELSE claimed
    /\ UNCHANGED <<now, maxRequests, windowMs, seen, resetVars, csrfVars, blacklistVars, inflight, recent, unswept, extras, accepted>>

\* POST /api/auth/request-password-reset from address ip with the body {email}
ResetRequest(ip, emailIn) ==
    /\ MayRequest(ip)
    /\ \E code \in RecoveryCodes :
       LET email == SanitizeInput(emailIn)
           limit == GeneralCanRequestResult(ipRequests, ip, now, maxRequests, windowMs)
           result == ResetMiddlewareResult(resetRequests, email, now)
           outcome == ResetRequestOutcome(usuarios, email)
           response == ResetRequestResponse(limit, result, outcome)
           reached == response.by = "requestPasswordReset"
       IN  /\ ipRequests' = GeneralCanRequestMap(ipRequests, ip, now, maxRequests, windowMs)
           /\ ipWindow' = [ipWindow EXCEPT ![ip] =
                              WindowAfterCall(@, now, maxRequests, windowMs)]
           /\ resetRequests' = IF limit.allowed
                               THEN ResetMiddlewareMap(resetRequests, email, now)
                               ELSE resetRequests
           /\ allowedAt' = IF limit.allowed /\ email \in Identifiers /\ result.allowed
                           THEN [allowedAt EXCEPT ![email] = Remembered(@, now)]
                           ELSE allowedAt
           /\ usuarios' = IF reached THEN ResetRequestStore(usuarios, email, code, now)
                          ELSE usuarios
           /\ ret' = [op |-> "POST /api/auth/request-password-reset", key |-> email,
                      value |-> response, before |-> NothingSeen,
                      had |-> Has(resetRequests, email),
                      outcome |-> outcome, mailed |-> reached /\ outcome = "sent",
                      ip |-> ip, limit |-> limit,
                      headers |-> RateLimitHeaders(limit, maxRequests)]
    /\ UNCHANGED <<now, maxRequests, windowMs, claimed, loginVars, csrfVars, blacklistVars, inflight, recent, unswept, extras, accepted>>

\* verifyCSRFToken, getCSRFTokenEndpoint: req.session?.id || sha256(ip + user-agent)
CsrfSessionKey(ip) == "K"

\* GET path from address ip, for the routes that touch no tracker
PlainRequest(ip, path) ==
    /\ LET limit == GeneralCanRequestResult(ipRequests, ip, now, maxRequests, windowMs)
       IN  ret' = [op |-> "GET", key |-> path, value |-> PlainResponse(limit, path),
                   before |-> NoToken, had |-> FALSE,
                   ip |-> ip, limit |-> limit,
                   headers |-> RateLimitHeaders(limit, maxRequests)]
    /\ ipRequests' = GeneralCanRequestMap(ipRequests, ip, now, maxRequests, windowMs)
    /\ ipWindow' = [ipWindow EXCEPT ![ip] = WindowAfterCall(@, now, maxRequests, windowMs)]
    /\ UNCHANGED <<now, maxRequests, windowMs, loginVars, resetVars, csrfVars, httpVars,
                   blacklistVars, inflight, recent, unswept>>

\* GET /api/csrf-token from address ip
CsrfTokenRequest(ip) ==
    /\ MayRequest(ip)
    /\ \E token \in TokenValues :
       LET limit == GeneralCanRequestResult(ipRequests, ip, now, maxRequests, windowMs)
           sessionId == CsrfSessionKey(ip)
       IN  /\ tokens' = IF limit.allowed
                        THEN GenerateTokenMap(tokens, sessionId, token, now)
                        ELSE tokens
           /\ csrfSeen' = IF limit.allowed
                          THEN [csrfSeen EXCEPT ![sessionId] =
                                   [issued |-> TRUE, token |-> token, at |-> now,
                                    expired |-> FALSE]]
                          ELSE csrfSeen
           /\ ret' = [op |-> "GET /api/csrf-token", key |-> sessionId,
                      value |-> CsrfTokenResponse(limit, token),
                      before |-> csrfSeen[sessionId], had |-> Has(tokens, sessionId),
                      ip |-> ip, limit |-> limit,
                      headers |-> RateLimitHeaders(limit, maxRequests)]
    /\ ipRequests' = GeneralCanRequestMap(ipRequests, ip, now, maxRequests, windowMs)
    /\ ipWindow' = [ipWindow EXCEPT ![ip] = WindowAfterCall(@, now, maxRequests, windowMs)]
    /\ UNCHANGED <<now, maxRequests, windowMs, loginVars, resetVars, httpVars, blacklistVars, inflight, recent, unswept>>

\* the Authorization headers a request may carry: none, a forged token, a token
\* that login signed for the user at a past start of a week
AuthHeaders ==
    {NULL, Num(ForgedToken)}
    \cup {Num(SignToken("a@b.com", Epoch + w * WEEK_MS)) :
             w \in {v \in 0..MaxWeek : Epoch + v * WEEK_MS <= now}}

\* the x-csrf-token headers a request may carry ("" is no header)
CsrfHeaders == {""} \cup TokenValues

\* what has been seen of the token of a header
HeaderRevocation(header) == IF header = NULL THEN NULL ELSE Revocation(Val(header))

\* GET /api/auth/profile from address ip
ProfileRequest(ip, header) ==
    /\ MayRequest(ip)
    /\ LET limit == GeneralCanRequestResult(ipRequests, ip, now, maxRequests, windowMs)
           outcome == AuthOutcome(blacklistedTokens, header, now)
           response == AuthResponse(limit, outcome, "getProfile",
                                    IF outcome = "ok" THEN ProfileStatus(usuarios, Val(header))
                                    ELSE 0)
       IN  /\ ipRequests' = GeneralCanRequestMap(ipRequests, ip, now, maxRequests, windowMs)
           /\ ipWindow' = [ipWindow EXCEPT ![ip] =
                              WindowAfterCall(@, now, maxRequests, windowMs)]
           /\ blacklistedTokens' = IF limit.allowed
                                   THEN AuthBlacklist(blacklistedTokens, header, now)
                                   ELSE blacklistedTokens
           /\ ret' = [op |-> "GET /api/auth/profile", key |-> header, value |-> response,
                      before |-> HeaderRevocation(header),
                      had |-> header # NULL /\ Has(blacklistedTokens, Val(header)),
                      steps |-> IF limit.allowed
                                THEN AuthSteps(blacklistedTokens, header, now) ELSE <<>>,
                      csrf |-> "",
                      ip |-> ip, limit |-> limit,
                      headers |-> RateLimitHeaders(limit, maxRequests)]
    /\ UNCHANGED <<now, maxRequests, windowMs, revoked, loginVars, resetVars, csrfVars,
                   httpVars, inflight, recent, unswept>>

\* POST /api/auth/logout from address ip
LogoutRequest(ip, header, csrf) ==
    /\ MayRequest(ip)
    /\ LET limit == GeneralCanRequestResult(ipRequests, ip, now, maxRequests, windowMs)
           outcome == AuthOutcome(blacklistedTokens, header, now)
           response == AuthResponse(limit, outcome, "logout", 200)
           reached == response.by = "logout"
           checked == IF limit.allowed
                      THEN AuthBlacklist(blacklistedTokens, header, now)
                      ELSE blacklistedTokens
       IN  /\ ipRequests' = GeneralCanRequestMap(ipRequests, ip, now, maxRequests, windowMs)
           /\ ipWindow' = [ipWindow EXCEPT ![ip] =
                              WindowAfterCall(@, now, maxRequests, windowMs)]
           /\ blacklistedTokens' =
                  IF reached
                  THEN BlacklistAddMap(checked, Val(header), LogoutExpiresAt(Val(header)))
                  ELSE checked
           /\ revoked' = IF reached
                         THEN MapSet(revoked, Val(header), Val(header).exp * 1000)
                         ELSE revoked
           /\ ret' = [op |-> "POST /api/auth/logout", key |-> header, value |-> response,
                      before |-> HeaderRevocation(header),
                      had |-> header # NULL /\ Has(blacklistedTokens, Val(header)),
                      steps |-> IF limit.allowed
                                THEN AuthSteps(blacklistedTokens, header, now) ELSE <<>>,
                      csrf |-> csrf,
                      ip |-> ip, limit |-> limit,
                      headers |-> RateLimitHeaders(limit, maxRequests)]
    /\ UNCHANGED <<now, maxRequests, windowMs, loginVars, resetVars, csrfVars, httpVars, inflight, recent, unswept>>

-----------------------------------------------------------------------------
(* The clock, the initial state, the specifications *)

\* the clock moves on to one of the instants S
Tick(S) ==
    /\ \E t \in S : t > now /\ now' = t
    /\ ret' = NoCall
    /\ UNCHANGED <<loginVars, resetVars, generalVars, csrfVars, httpVars, blacklistVars, inflight, recent, unswept>>

\* no code has been accepted and no password replaced
NothingAccepted == [verified |-> {}, replaced |-> {}]

\* the state after the module is loaded, the login tracker holding m and the
\* collection 'Usuarios' holding db
InitState(m, db) ==
    /\ now = Epoch
    /\ attempts = m
    /\ seen = [e \in Identifiers |-> NothingSeen]
    /\ resetRequests = EmptyMap
    /\ allowedAt = [e \in Identifiers |-> <<>>]
    /\ maxRequests = DEFAULT_MAX_REQUESTS
    /\ windowMs = DEFAULT_WINDOW_MS
    /\ ipRequests = EmptyMap
    /\ ipWindow = [a \in Addresses |-> NoWindow]
    /\ tokens = EmptyMap
    /\ csrfSeen = [k \in SessionKeys |-> NoToken]
    /\ usuarios = db
    /\ extras = <<>>
    /\ accepted = NothingAccepted
    /\ claimed = EmptyMap
    /\ blacklistedTokens = EmptyMap
    /\ revoked = EmptyMap
    /\ inflight = [w \in Workers |-> Idle]
    /\ recent = [a \in Addresses |-> <<>>]
    /\ unswept = NeverSwept
    /\ ret = NoCall

\* the same with the collection as the process finds it when it starts
InitWith(m) == InitState(m, SeedUsuarios)

\* the state after the module is loaded: every tracker is constructed empty
Init == InitWith(EmptyMap)

LoginNext ==
    \/ \E e \in Identifiers : RecordFailedAttempt(e)
    \/ \E e \in Identifiers : IsLocked(e)
    \/ \E e \in Identifiers : ClearAttempts(e)
    \/ LoginCleanup
    \/ Tick(Instants)

SpecLogin == Init /\ [][LoginNext]_vars

ResetNext ==
    \/ \E e \in Identifiers : ResetCanRequest(e)
    \/ ResetCleanup
    \/ Tick(HourInstants)

SpecReset == Init /\ [][ResetNext]_vars

GeneralNext ==
    \/ \E a \in Addresses : GeneralCanRequest(a)
    \/ GeneralCleanup
    \/ Tick(Instants)

SpecGeneral == Init /\ [][GeneralNext]_vars

\* the instants around the ends of consecutive windows of the limiter
BurstInstants ==
    {t \in {Epoch + k * (DEFAULT_WINDOW_MS + 1) + o : k \in 0..MaxWindow, o \in {-1, 0}} :
        t >= Epoch}

\* the limiter called by a caller that logs its allowed calls, the sweep, the clock
BurstNext ==
    \/ \E a \in Addresses : LoggedCanRequest(a)
    \/ GeneralCleanup
    \/ Tick(BurstInstants)

SpecBurst == Init /\ [][BurstNext]_vars

CsrfNext ==
    \/ \E k \in SessionKeys : GenerateToken(k)
    \/ \E k \in SessionKeys : VerifyToken(k)
    \/ \E k \in SessionKeys : InvalidateToken(k)
    \/ CsrfCleanup
    \/ Tick(HourInstants)

SpecCsrf == Init /\ [][CsrfNext]_vars

BlacklistNext ==
    \/ \E t \in OpaqueTokens, e \in Instants : BlacklistAdd(t, e)
    \/ \E t \in OpaqueTokens : IsBlacklisted(t)
    \/ BlacklistCleanup
    \/ Tick(Instants)

SpecBlacklist == Init /\ [][BlacklistNext]_vars

\* the instants at which the sessions are observed: around the starts of the weeks
SessionInstants ==
    {Epoch + w * WEEK_MS + o : w \in 0..MaxWeek, o \in {-1, 0, 1}}

\* the routes behind verifyToken, the sweeps of what they use, the clock
SessionNext ==
    \/ \E a \in Addresses, h \in AuthHeaders : ProfileRequest(a, h)
    \/ \E a \in Addresses, h \in AuthHeaders, c \in CsrfHeaders : LogoutRequest(a, h, c)
    \/ BlacklistCleanup
    \/ GeneralCleanup
    \/ Tick(SessionInstants)

SpecSession == Init /\ [][SessionNext]_vars

\* the password-reset route, the sweeps of what it uses, the clock
ResetRouteNext ==
    \/ \E a \in Addresses, e \in ResetEmailInputs : ResetRequest(a, e)
    \/ ResetCleanup
    \/ GeneralCleanup
    \/ Tick(ServerInstants)

SpecResetRoute == Init /\ [][ResetRouteNext]_vars

\* every route of the server under the general limiter
ServerNext ==
    \/ \E a \in Addresses, p \in PlainPaths : PlainRequest(a, p)
    \/ \E a \in Addresses : CsrfTokenRequest(a)
    \/ \E a \in Addresses, h \in AuthHeaders : ProfileRequest(a, h)
    \/ GeneralCleanup
    \/ Tick(ServerInstants)

SpecServer == Init /\ [][ServerNext]_vars

\* requests handled concurrently, the sweep of the login tracker, the clock
ConcurrentNext ==
    \/ \E w \in Workers, e \in Identifiers : BeginFailedLogin(w, e)
    \/ \E w \in Workers : ResumeFailedLogin(w)
    \/ LoginCleanup
    \/ Tick(ServerInstants)

SpecConcurrent == Init /\ [][ConcurrentNext]_vars

\* the server: requests, the sweeps of the trackers they use, the clock
HttpNext ==
    \/ \E a \in Addresses, e \in EmailInputs, p \in PasswordInputs : LoginRequest(a, e, p)
    \/ LoginCleanup
    \/ GeneralCleanup
    \/ Tick(ServerInstants)

SpecHttp == Init /\ [][HttpNext]_vars

\* the login tracker after n calls recordFailedAttempt(email) at the instant t
RECURSIVE FailedTimes(_, _, _, _)
FailedTimes(m, email, t, n) ==
    IF n = 0 THEN m
    ELSE FailedTimes(MapSet(m, email, RecordFailedAttemptRecord(m, email, t)), email, t, n - 1)

\* the server starting with the exported login tracker either empty or holding
\* an identifier that its callers have just locked out
InitLoginRoute ==
    \E m \in {EmptyMap} \cup {FailedTimes(EmptyMap, e, Epoch, MAX_ATTEMPTS) : e \in Identifiers} :
        InitWith(m)

SpecLoginRoute == InitLoginRoute /\ [][HttpNext]_vars

\* the spellings of one account's email that a request body may carry
CaseInputs == {"a@b.com", "A@b.com"}

\* the spellings that differ from the identifier already in the trackers
OtherCase == CaseInputs \ Identifiers

\* the two routes whose middlewares key a tracker by req.body.email, the clock
AccountNext ==
    \/ \E a \in Addresses, e \in OtherCase, p \in {"wrong"} : LoginRequest(a, e, p)
    \/ \E a \in Addresses, e \in CaseInputs : ResetRequest(a, e)
    \/ ResetCleanup
    \/ Tick(ServerInstants)

SpecAccount == InitLoginRoute /\ [][AccountNext]_vars

\* the instants at which the trackers are observed together: every record of one
\* instant is stale for the sweeps at the next
TrackerInstants == {Epoch, Epoch + WEEK_MS + 1}

\* the Authorization headers that carry a token signed by login
SignedHeaders == {h \in AuthHeaders \ {NULL} : Val(h).signed}

\* the routes that call a tracker behind rateLimitMiddleware, the sweeps of the
\* five trackers, the clock
TrackersNext ==
    \/ \E a \in Addresses, e \in Identifiers, p \in {"wrong"} : LoginRequest(a, e, p)
    \/ \E a \in Addresses, e \in Identifiers : ResetRequest(a, e)
    \/ \E a \in Addresses : CsrfTokenRequest(a)
    \/ \E a \in Addresses, h \in SignedHeaders : LogoutRequest(a, h, "")
    \/ LoginCleanup
    \/ ResetCleanup
    \/ GeneralCleanup
    \/ CsrfCleanup
    \/ BlacklistCleanup
    \/ Tick(TrackerInstants)

SpecTrackers == InitLoginRoute /\ [][TrackersNext]_vars

\* the instants on both sides of every threshold of the sweeps: 15 minutes and
\* one hour after a record was written
SweepInstants ==
    {Epoch + h * HOUR_MS + o :
        h \in 0..(MaxWindow - 1), o \in {0, QUARTER_MS, QUARTER_MS + 1, HOUR_MS, HOUR_MS + 1}}

\* the five tracker maps
Trackers ==
    [login |-> attempts, reset |-> resetRequests, general |-> ipRequests, csrf |-> tokens,
     blacklist |-> blacklistedTokens]

\* the trackers share no state: a run calls the operations of one of them
Only(x) ==
    \A y \in DOMAIN Trackers \ {x} : Trackers[y] = EmptyMap /\ unswept[y] = EmptyMap

\* the operations of a tracker, called on it and on its copy; the sweeps; the clock
SweepsNext ==
    \/ \E e \in Identifiers : Only("login") /\ TwinRecordFailedAttempt(e)
    \/ \E e \in Identifiers : Only("login") /\ TwinIsLocked(e)
    \/ \E e \in Identifiers : Only("login") /\ TwinClearAttempts(e)
    \/ \E e \in Identifiers : Only("reset") /\ TwinResetCanRequest(e)
    \/ \E a \in Addresses : Only("general") /\ TwinGeneralCanRequest(a)
    \/ \E k \in {"K"} : Only("csrf") /\ TwinGenerateToken(k)
    \/ \E k \in {"K"} : Only("csrf") /\ TwinVerifyToken(k)
    \/ \E k \in {"K"} : Only("csrf") /\ TwinInvalidateToken(k)
    \/ \E t \in OpaqueTokens, e \in SweepInstants : Only("blacklist") /\ TwinBlacklistAdd(t, e)
    \/ \E t \in OpaqueTokens : Only("blacklist") /\ TwinIsBlacklisted(t)
    \/ LoginCleanup
    \/ ResetCleanup
    \/ GeneralCleanup
    \/ CsrfCleanup
    \/ BlacklistCleanup
    \/ Tick(SweepInstants)

SpecSweeps == Init /\ [][SweepsNext]_vars

-----------------------------------------------------------------------------
(* POST /api/auth/reset-password: sanitizeRequestMiddleware,                 *)
(* rateLimitMiddleware, authController.resetPassword.  The handler awaits    *)
(* the query, then the hash of the new password, then the update: other      *)
(* requests are handled while it is suspended                                *)

\* the codigo and nuevaPassword fields a request body may carry
CodeInputs == RecoveryCodes \cup {"000000", ""}
NewPasswordInputs == {"Nueva#123", "Otra#4567", "corta"}

\* isStrongPassword: 8 characters or more, an upper-case and a lower-case letter,
\* a digit and a special character
IsStrongPassword(v) == v \in {"Nueva#123", "Otra#4567", "Alta#2024"}

\* Usuario.isRecoveryCodeValid: the code is the stored one and has not expired
IsRecoveryCodeValid(doc, codigo, t) ==
    /\ doc.codigoRecuperacion = Num(codigo)
    /\ doc.codigoRecuperacionExpira # NULL
    /\ t < Val(doc.codigoRecuperacionExpira)

\* resetPassword: the branch a request ends in, given the collection it queries
ResetPasswordOutcome(db, email, codigo, nuevaPassword, t) ==
    IF email = "" \/ codigo = "" \/ nuevaPassword = "" THEN "missing"
    ELSE IF ~IsValidEmail(email) THEN "invalidEmail"
    ELSE IF ~IsStrongPassword(nuevaPassword) THEN "weakPassword"
    ELSE IF ~Has(db, ToLowerCase(email)) THEN "badCode"
    ELSE IF ~IsRecoveryCodeValid(db[ToLowerCase(email)], codigo, t) THEN "badCode"
    ELSE "ok"

\* the response of a request that the limiter refused or that ended in a branch
ResetPasswordResponse(limit, outcome) ==
    IF ~limit.allowed
    THEN [status |-> 429, by |-> "rateLimitMiddleware", retryAfter |-> limit.remainingTime]
    ELSE [status |-> IF outcome = "ok" THEN 200 ELSE 400, by |-> "resetPassword",
          outcome |-> outcome]

\* resetPassword: updateOne({email}, {$set: {password}, $unset: {codigoRecuperacion,
\* codigoRecuperacionExpira}}); the filter names the email only
ResetPasswordStore(db, email, hash) ==
    IF Has(db, ToLowerCase(email))
    THEN [db EXCEPT ![ToLowerCase(email)].password = hash,
                    ![ToLowerCase(email)].codigoRecuperacion = NULL,
                    ![ToLowerCase(email)].codigoRecuperacionExpira = NULL]
    ELSE db

\* the requests are numbered as they arrive: w is the next one
Arrives(w) ==
    /\ inflight[w].pc = "idle"
    /\ \A v \in Workers : v < w => inflight[v].pc # "idle"

\* the request w arrives from address ip with the body {email, codigo, nuevaPassword}:
\* the middlewares, the validations, the query and the test of the code; a request
\* that passes them suspends while its new password is hashed
BeginResetPassword(w, ip, emailIn, codigoIn, passwordIn) ==
    /\ Arrives(w)
    /\ MayRequest(ip)
    /\ LET email == SanitizeInput(emailIn)
           codigo == SanitizeInput(codigoIn)
           nuevaPassword == SanitizeInput(passwordIn)
           limit == GeneralCanRequestResult(ipRequests, ip, now, maxRequests, windowMs)
           outcome == ResetPasswordOutcome(usuarios, email, codigo, nuevaPassword, now)
           response == ResetPasswordResponse(limit, outcome)
           passed == limit.allowed /\ outcome = "ok"
       IN  /\ ipRequests' = GeneralCanRequestMap(ipRequests, ip, now, maxRequests, windowMs)
           /\ ipWindow' = [ipWindow EXCEPT ![ip] =
                              WindowAfterCall(@, now, maxRequests, windowMs)]
           /\ inflight' = IF passed
                          THEN [inflight EXCEPT ![w] =
                                   [pc |-> "hashing", op |-> "resetPassword",
                                    email |-> email, snap |-> usuarios[ToLowerCase(email)],
                                    codigo |-> codigo, password |-> nuevaPassword]]
                          ELSE inflight
           /\ ret' = IF passed THEN NoCall
                     ELSE [op |-> "POST /api/auth/reset-password", key |-> email,
                           value |-> response, before |-> NothingSeen, had |-> FALSE,
                           ip |-> ip, limit |-> limit,
                           headers |-> RateLimitHeaders(limit, maxRequests)]
    /\ UNCHANGED <<now, maxRequests, windowMs, loginVars, resetVars, csrfVars, httpVars,
                   blacklistVars, recent, unswept>>

\* the request w is resumed with the hash: the update, then the response 200
FinishResetPassword(w) ==
    /\ inflight[w].pc = "hashing"
    /\ inflight[w].op = "resetPassword"
    /\ LET email == inflight[w].email
           hash == Hash(inflight[w].password)
       IN  /\ usuarios' = ResetPasswordStore(usuarios, email, hash)
           /\ ret' = [op |-> "POST /api/auth/reset-password", key |-> email,
                      value |-> [status |-> 200, by |-> "resetPassword", outcome |-> "ok"],
                      before |-> NothingSeen, had |-> FALSE,
                      codigo |-> inflight[w].codigo,
                      stored |-> usuarios[ToLowerCase(email)].codigoRecuperacion]
           /\ accepted' = [accepted EXCEPT !.replaced = @ \cup {ToLowerCase(email)}]
    /\ inflight' = [inflight EXCEPT ![w].pc = "done"]
    /\ UNCHANGED <<now, loginVars, resetVars, generalVars, csrfVars, claimed, extras,
                   blacklistVars, recent, unswept>>

\* the instants around the expiry of a code issued at the start
RecoveryInstants == {Epoch, Epoch + RECOVERY_CODE_MS - 1, Epoch + RECOVERY_CODE_MS}

\* the server after requestPasswordReset has issued one code to the seeded user
InitRecovery ==
    \E code \in RecoveryCodes :
        InitState(EmptyMap, ResetRequestStore(SeedUsuarios, "a@b.com", code, Epoch))

\* requests to POST /api/auth/reset-password handled concurrently, the clock
RecoveryNext ==
    \/ \E w \in Workers, a \in Addresses, e \in {"a@b.com", "x@y.com"},
          c \in CodeInputs, p \in NewPasswordInputs : BeginResetPassword(w, a, e, c, p)
    \/ \E w \in Workers : FinishResetPassword(w)
    \/ Tick(RecoveryInstants)

SpecRecovery == InitRecovery /\ [][RecoveryNext]_vars

-----------------------------------------------------------------------------
(* POST /api/auth/register and the Google sign-in callback: each queries the *)
(* collection for the email, and a request that found none awaits the hash   *)
(* of its password before it inserts its document                            *)

\* a field of a document as the Usuario constructor reads it (data.f || null), and
\* the document after {$set: {f: v}}
Field(doc, f) == IF f \in DOMAIN doc THEN doc[f] ELSE NULL
SetField(doc, f, v) == [g \in DOMAIN doc \cup {f} |-> IF g = f THEN v ELSE doc[g]]

\* the password field of a registration ("" is a missing one) and the codes that
\* Usuario.generateVerificationCode draws (valid for 24 hours)
RegisterPasswords == {"Alta#2024", "corta", ""}
VerificationCodes == {"654321"}
VERIFICATION_CODE_MS == 24 * HOUR_MS

\* the profiles Google may hand to the strategy's verify callback
GoogleProfiles == {[id |-> "g-1", email |-> "A@b.com"]}

\* new Usuario({..., email, password}) after hashPassword and
\* generateVerificationCode, as toDocument stores it
RegisteredUsuario(hash, code, t) ==
    [password |-> hash, emailVerificado |-> FALSE, activo |-> TRUE, ultimoAcceso |-> NULL,
     codigoVerificacion |-> Num(code), codigoVerificacionExpira |-> Num(t + VERIFICATION_CODE_MS),
     codigoRecuperacion |-> NULL, codigoRecuperacionExpira |-> NULL, googleId |-> NULL]

\* 'google-oauth-' + profile.id
GooglePassword(id) == IF id = "g-1" THEN "google-oauth-g-1" ELSE "google-oauth-"

\* new Usuario({..., password: 'google-oauth-' + profile.id, googleId, emailVerificado:
\* true, ultimoAcceso: new Date()}) after hashPassword, as toDocument stores it
GoogleUsuario(profile, t) ==
    [password |-> Hash(GooglePassword(profile.id)), emailVerificado |-> TRUE,
     activo |-> TRUE, ultimoAcceso |-> Num(t),
     codigoVerificacion |-> NULL, codigoVerificacionExpira |-> NULL,
     codigoRecuperacion |-> NULL, codigoRecuperacionExpira |-> NULL,
     googleId |-> Num(profile.id)]

\* insertOne(toDocument()): the collection takes the document whatever it holds;
\* the first document of an email goes to the map, a further one behind it
InsertOneFirst(db, email, doc) ==
    IF Has(db, ToLowerCase(email)) THEN db ELSE MapSet(db, ToLowerCase(email), doc)
InsertOneBehind(db, ex, email, doc) ==
    IF Has(db, ToLowerCase(email))
    THEN Append(ex, [email |-> ToLowerCase(email), doc |-> doc])
    ELSE ex

\* register: the branch a request ends in before it hashes (nombre, apellido and
\* telefono are well-formed)
RegisterOutcome(db, email, password) ==
    IF email = "" \/ ~IsValidEmail(email) \/ password = "" \/ ~IsStrongPassword(password)
    THEN "invalid"
    ELSE IF Has(db, ToLowerCase(email)) THEN "exists"
    ELSE "ok"

RegisterResponse(limit, outcome) ==
    IF ~limit.allowed
    THEN [status |-> 429, by |-> "rateLimitMiddleware", retryAfter |-> limit.remainingTime]
    ELSE [status |-> IF outcome = "ok" THEN 201 ELSE 400, by |-> "register",
          outcome |-> outcome]

\* the request w arrives with the body {email, password, ...}: the middlewares, the
\* validation and the query; a request whose email was not found suspends at hashPassword
BeginRegister(w, ip, emailIn, passwordIn) ==
    /\ Arrives(w)
    /\ MayRequest(ip)
    /\ LET email == SanitizeInput(emailIn)
           password == SanitizeInput(passwordIn)
           limit == GeneralCanRequestResult(ipRequests, ip, now, maxRequests, windowMs)
           outcome == RegisterOutcome(usuarios, email, password)
           passed == limit.allowed /\ outcome = "ok"
       IN  /\ ipRequests' = GeneralCanRequestMap(ipRequests, ip, now, maxRequests, windowMs)
           /\ ipWindow' = [ipWindow EXCEPT ![ip] =
                              WindowAfterCall(@, now, maxRequests, windowMs)]
           /\ inflight' = IF passed
                          THEN [inflight EXCEPT ![w] =
                                   [pc |-> "hashing", op |-> "register", email |-> email,
                                    snap |-> NULL, password |-> password]]
                          ELSE inflight
           /\ ret' = IF passed THEN NoCall
                     ELSE [op |-> "POST /api/auth/register", key |-> email,
                           value |-> RegisterResponse(limit, outcome),
                           before |-> NothingSeen, had |-> FALSE,
                           ip |-> ip, limit |-> limit,
                           headers |-> RateLimitHeaders(limit, maxRequests)]
    /\ UNCHANGED <<now, maxRequests, windowMs, loginVars, resetVars, csrfVars, httpVars,
                   blacklistVars, recent, unswept>>

\* the request w is resumed with the hash: generateVerificationCode, insertOne, 201
FinishRegister(w) ==
    /\ inflight[w].pc = "hashing"
    /\ inflight[w].op = "register"
    /\ \E code \in VerificationCodes :
       LET email == inflight[w].email
           doc == RegisteredUsuario(Hash(inflight[w].password), code, now)
       IN  /\ usuarios' = InsertOneFirst(usuarios, email, doc)
           /\ extras' = InsertOneBehind(usuarios, extras, email, doc)
           /\ ret' = [op |-> "POST /api/auth/register", key |-> email,
                      value |-> [status |-> 201, by |-> "register", outcome |-> "ok"],
                      before |-> NothingSeen, had |-> Has(usuarios, ToLowerCase(email))]
    /\ inflight' = [inflight EXCEPT ![w].pc = "done"]
    /\ UNCHANGED <<now, loginVars, resetVars, generalVars, csrfVars, claimed,
                   blacklistVars, recent, unswept, accepted>>

\* the verify callback: findOne({googleId}), else findOne({email}); the documents
\* are searched in the order they were inserted
HasGoogleId(doc, id) == Field(doc, "googleId") = Num(id)
KnownFirst(db, id) == {e \in DOMAIN db : HasGoogleId(db[e], id)}
KnownBehind(ex, id) == {i \in DOMAIN ex : HasGoogleId(ex[i].doc, id)}

GoogleOutcome(db, ex, profile) ==
    IF KnownFirst(db, profile.id) # {} \/ KnownBehind(ex, profile.id) # {} THEN "known"
    ELSE IF Has(db, ToLowerCase(profile.email)) THEN "link"
    ELSE "create"

\* the collection after updateOne({_id}, {$set: ...}) of the branch: the last access
\* of the known user; googleId, emailVerificado and the last access of the user
\* found by email
GoogleStore(db, ex, profile, t) ==
    CASE GoogleOutcome(db, ex, profile) = "known" ->
           [e \in DOMAIN db |->
               IF e \in KnownFirst(db, profile.id) THEN SetField(db[e], "ultimoAcceso", Num(t))
               ELSE db[e]]
      [] GoogleOutcome(db, ex, profile) = "link" ->
           [db EXCEPT ![ToLowerCase(profile.email)] =
               SetField(SetField(SetField(@, "googleId", Num(profile.id)),
                                 "emailVerificado", TRUE), "ultimoAcceso", Num(t))]
      [] OTHER -> db

GoogleStoreBehind(db, ex, profile, t) ==
    IF GoogleOutcome(db, ex, profile) = "known" /\ KnownFirst(db, profile.id) = {}
    THEN LET i == CHOOSE j \in KnownBehind(ex, profile.id) :
                      \A k \in KnownBehind(ex, profile.id) : j <= k
         IN  [ex EXCEPT ![i].doc = SetField(@, "ultimoAcceso", Num(t))]
    ELSE ex

\* GET /api/auth/google/callback for the request w: the middlewares and the verify
\* callback up to done(null, user) or, for a new user, to its suspension at hashPassword
BeginGoogle(w, ip, profile) ==
    /\ Arrives(w)
    /\ MayRequest(ip)
    /\ LET limit == GeneralCanRequestResult(ipRequests, ip, now, maxRequests, windowMs)
           outcome == GoogleOutcome(usuarios, extras, profile)
       IN  /\ ipRequests' = GeneralCanRequestMap(ipRequests, ip, now, maxRequests, windowMs)
           /\ ipWindow' = [ipWindow EXCEPT ![ip] =
                              WindowAfterCall(@, now, maxRequests, windowMs)]
           /\ usuarios' = IF limit.allowed THEN GoogleStore(usuarios, extras, profile, now)
                          ELSE usuarios
           /\ extras' = IF limit.allowed THEN GoogleStoreBehind(usuarios, extras, profile, now)
                        ELSE extras
           /\ inflight' = IF limit.allowed /\ outcome = "create"
                          THEN [inflight EXCEPT ![w] =
                                   [pc |-> "hashing", op |-> "google",
                                    email |-> profile.email, snap |-> NULL,
                                    profile |-> profile]]
                          ELSE inflight
           /\ ret' = IF limit.allowed /\ outcome = "create" THEN NoCall
                     ELSE [op |-> "GET /api/auth/google/callback", key |-> profile.email,
                           value |-> IF limit.allowed
                                     THEN [status |-> 302, by |-> "GoogleStrategy",
                                           outcome |-> outcome]
                                     ELSE [status |-> 429, by |-> "rateLimitMiddleware",
                                           retryAfter |-> limit.remainingTime],
                           before |-> NothingSeen,
                           had |-> Has(usuarios, ToLowerCase(profile.email)),
                           ip |-> ip, limit |-> limit,
                           headers |-> RateLimitHeaders(limit, maxRequests)]
    /\ UNCHANGED <<now, maxRequests, windowMs, loginVars, resetVars, csrfVars, claimed,
                   blacklistVars, recent, unswept, accepted>>

\* the request w is resumed with the hash: insertOne, done(null, user)
FinishGoogle(w) ==
    /\ inflight[w].pc = "hashing"
    /\ inflight[w].op = "google"
    /\ LET email == inflight[w].email
           doc == GoogleUsuario(inflight[w].profile, now)
       IN  /\ usuarios' = InsertOneFirst(usuarios, email, doc)
           /\ extras' = InsertOneBehind(usuarios, extras, email, doc)
           /\ ret' = [op |-> "GET /api/auth/google/callback", key |-> email,
                      value |-> [status |-> 302, by |-> "GoogleStrategy", outcome |-> "create"],
                      before |-> NothingSeen, had |-> Has(usuarios, ToLowerCase(email))]
    /\ inflight' = [inflight EXCEPT ![w].pc = "done"]
    /\ UNCHANGED <<now, loginVars, resetVars, generalVars, csrfVars, claimed,
                   blacklistVars, recent, unswept, accepted>>

\* the server started on a database whose collection 'Usuarios' is empty
InitSignup == InitState(EmptyMap, EmptyMap)

\* the instants of the sign-ups: within one window of the limiter and after it
SignupInstants == {Epoch, Epoch + DEFAULT_WINDOW_MS + 1}

\* registrations and Google sign-ins handled concurrently, the clock
SignupNext ==
    \/ \E w \in Workers, a \in Addresses, e \in CaseInputs, p \in RegisterPasswords :
          BeginRegister(w, a, e, p)
    \/ \E w \in Workers : FinishRegister(w)
    \/ \E w \in Workers, a \in Addresses, g \in GoogleProfiles : BeginGoogle(w, a, g)
    \/ \E w \in Workers : FinishGoogle(w)
    \/ Tick(SignupInstants)

SpecSignup == InitSignup /\ [][SignupNext]_vars

-----------------------------------------------------------------------------
(* POST /api/auth/verify-email and POST /api/auth/resend-verification        *)

\* Usuario.isVerificationCodeValid: the code is the stored one and has not expired
IsVerificationCodeValid(doc, codigo, t) ==
    /\ Field(doc, "codigoVerificacion") = Num(codigo)
    /\ Field(doc, "codigoVerificacionExpira") # NULL
    /\ t < Val(Field(doc, "codigoVerificacionExpira"))

\* verifyEmail: the branch a request ends in
VerifyEmailOutcome(db, email, codigo, t) ==
    IF email = "" \/ codigo = "" THEN "missing"
    ELSE IF ~IsValidEmail(email) THEN "invalidEmail"
    ELSE IF ~Has(db, ToLowerCase(email)) THEN "noUser"
    ELSE IF db[ToLowerCase(email)].emailVerificado THEN "already"
    ELSE IF ~IsVerificationCodeValid(db[ToLowerCase(email)], codigo, t) THEN "badCode"
    ELSE "ok"

VerifyEmailStatus(outcome) ==
    CASE outcome = "ok" -> 200
      [] outcome = "noUser" -> 404
      [] OTHER -> 400

\* verifyEmail: updateOne({email}, {$set: {emailVerificado: true}, $unset:
\* {codigoVerificacion, codigoVerificacionExpira}})
VerifyEmailStore(db, email, codigo, t) ==
    IF VerifyEmailOutcome(db, email, codigo, t) = "ok"
    THEN [db EXCEPT ![ToLowerCase(email)] =
             SetField(SetField(SetField(@, "emailVerificado", TRUE),
                               "codigoVerificacion", NULL), "codigoVerificacionExpira", NULL)]
    ELSE db

\* POST /api/auth/verify-email from address ip with the body {email, codigo}
VerifyEmailRequest(ip, emailIn, codigoIn) ==
    /\ MayRequest(ip)
    /\ LET email == SanitizeInput(emailIn)
           codigo == SanitizeInput(codigoIn)
           limit == GeneralCanRequestResult(ipRequests, ip, now, maxRequests, windowMs)
           outcome == VerifyEmailOutcome(usuarios, email, codigo, now)
           ok == limit.allowed /\ outcome = "ok"
       IN  /\ ipRequests' = GeneralCanRequestMap(ipRequests, ip, now, maxRequests, windowMs)
           /\ ipWindow' = [ipWindow EXCEPT ![ip] =
                              WindowAfterCall(@, now, maxRequests, windowMs)]
           /\ usuarios' = IF limit.allowed THEN VerifyEmailStore(usuarios, email, codigo, now)
                          ELSE usuarios
           /\ accepted' = IF ok THEN [accepted EXCEPT !.verified = @ \cup {ToLowerCase(email)}]
                          ELSE accepted
           /\ ret' = [op |-> "POST /api/auth/verify-email", key |-> email,
                      value |-> IF limit.allowed
                                THEN [status |-> VerifyEmailStatus(outcome),
                                      by |-> "verifyEmail", outcome |-> outcome]
                                ELSE [status |-> 429, by |-> "rateLimitMiddleware",
                                      retryAfter |-> limit.remainingTime],
                      before |-> NothingSeen, had |-> Has(usuarios, ToLowerCase(email)),
                      ip |-> ip, limit |-> limit,
                      headers |-> RateLimitHeaders(limit, maxRequests)]
    /\ UNCHANGED <<now, maxRequests, windowMs, loginVars, resetVars, csrfVars, claimed, extras,
                   blacklistVars, inflight, recent, unswept>>

\* resendVerificationCode: the branch a request ends in, and the collection it
\* leaves: a new code for a user who is not verified yet
ResendOutcome(db, email) ==
    IF email = "" \/ ~IsValidEmail(email) THEN "invalid"
    ELSE IF ~Has(db, ToLowerCase(email)) THEN "noUser"
    ELSE IF db[ToLowerCase(email)].emailVerificado THEN "already"
    ELSE "sent"

ResendStore(db, email, code, t) ==
    IF ResendOutcome(db, email) = "sent"
    THEN [db EXCEPT ![ToLowerCase(email)] =
             SetField(SetField(@, "codigoVerificacion", Num(code)),
                      "codigoVerificacionExpira", Num(t + VERIFICATION_CODE_MS))]
    ELSE db

\* POST /api/auth/resend-verification from address ip with the body {email}
ResendVerificationRequest(ip, emailIn) ==
    /\ MayRequest(ip)
    /\ \E code \in VerificationCodes :
       LET email == SanitizeInput(emailIn)
           limit == GeneralCanRequestResult(ipRequests, ip, now, maxRequests, windowMs)
           outcome == ResendOutcome(usuarios, email)
       IN  /\ ipRequests' = GeneralCanRequestMap(ipRequests, ip, now, maxRequests, windowMs)
           /\ ipWindow' = [ipWindow EXCEPT ![ip] =
                              WindowAfterCall(@, now, maxRequests, windowMs)]
           /\ usuarios' = IF limit.allowed THEN ResendStore(usuarios, email, code, now)
                          ELSE usuarios
           /\ ret' = [op |-> "POST /api/auth/resend-verification", key |-> email,
                      value |-> IF limit.allowed
                                THEN [status |-> CASE outcome = "sent" -> 200
                                                   [] outcome = "noUser" -> 404
                                                   [] OTHER -> 400,
                                      by |-> "resendVerificationCode", outcome |-> outcome]
                                ELSE [status |-> 429, by |-> "rateLimitMiddleware",
                                      retryAfter |-> limit.remainingTime],
                      before |-> NothingSeen, had |-> Has(usuarios, ToLowerCase(email)),
                      ip |-> ip, limit |-> limit,
                      headers |-> RateLimitHeaders(limit, maxRequests)]
    /\ UNCHANGED <<now, maxRequests, windowMs, loginVars, resetVars, csrfVars, claimed, extras,
                   accepted, blacklistVars, inflight, recent, unswept>>

\* the instants of the requests of one account: all within the validity of its codes
VerificationInstants == {Epoch, Epoch + 1}

\* the life of one account: registration, verification, Google sign-in, login,
\* password recovery; the clock
VerificationNext ==
    \/ \E w \in Workers, a \in Addresses : BeginRegister(w, a, "a@b.com", "Alta#2024")
    \/ \E w \in Workers : FinishRegister(w)
    \/ \E w \in Workers, a \in Addresses, g \in GoogleProfiles : BeginGoogle(w, a, g)
    \/ \E w \in Workers : FinishGoogle(w)
    \/ \E a \in Addresses, c \in VerificationCodes : VerifyEmailRequest(a, "a@b.com", c)
    \/ \E a \in Addresses : ResendVerificationRequest(a, "a@b.com")
    \/ \E a \in Addresses, p \in {"Alta#2024", "Nueva#123"} : LoginRequest(a, "A@b.com", p)
    \/ \E a \in Addresses : ResetRequest(a, "a@b.com")
    \/ \E w \in Workers, a \in Addresses, c \in RecoveryCodes :
          BeginResetPassword(w, a, "a@b.com", c, "Nueva#123")
    \/ \E w \in Workers : FinishResetPassword(w)
    \/ Tick(VerificationInstants)

SpecVerification == InitSignup /\ [][VerificationNext]_vars

-----------------------------------------------------------------------------
(* Claims about the login tracker, checked under SpecLogin *)

LOCK_MINUTES == LOCK_MS \div MINUTE_MS

\* C1: when recordFailedAttempt has been called exactly 5 times for an identifier,
\* all of them no later than 15 minutes after the first, the fifth call returns
\* lockedUntil = its time + 15 minutes, and every isLocked call made before that
\* instant returns locked = true with remainingTime a whole number of minutes in 1..15.
C1_LockedAfterFiveFailures ==
    /\ (/\ ret.op = "recordFailedAttempt"
        /\ seen[ret.key].n = MAX_ATTEMPTS
        /\ now - Val(seen[ret.key].first) <= ATTEMPT_WINDOW_MS)
       => ret.value.lockedUntil = Num(now + LOCK_MS)
    /\ (/\ ret.op = "isLocked"
        /\ ret.before.n = MAX_ATTEMPTS
        /\ Val(ret.before.last) - Val(ret.before.first) <= ATTEMPT_WINDOW_MS
        /\ now < Val(ret.before.last) + LOCK_MS)
       => /\ ret.value.locked
          /\ Val(ret.value.remainingTime) \in 1..LOCK_MINUTES

\* C1 witness: isLocked is called one millisecond before the lock of five failures,
\* the last of them made exactly 15 minutes after the first, runs out
C1_Witness ==
    /\ ret.op = "isLocked"
    /\ ret.before.n = MAX_ATTEMPTS
    /\ Val(ret.before.last) - Val(ret.before.first) = ATTEMPT_WINDOW_MS
    /\ now = Val(ret.before.last) + LOCK_MS - 1
    /\ ret.value.locked
    /\ ret.value.remainingTime = Num(1)

\* C4: once the clock has passed the lockedUntil that the latest recordFailedAttempt
\* returned, isLocked returns not-locked and leaves no record, and the next
\* recordFailedAttempt starts a fresh window (count 1, attemptsLeft 4, not locked),
\* whether the record was removed in between or not.
C4_LockSelfHeals ==
    /\ (/\ ret.op = "isLocked"
        /\ ret.before.lock # NULL
        /\ now > Val(ret.before.lock))
       => /\ ~ret.value.locked
          /\ ~Has(attempts, ret.key)
    /\ (/\ ret.op = "recordFailedAttempt"
        /\ ret.before.lock # NULL
        /\ now > Val(ret.before.lock))
       => /\ attempts[ret.key] = [count |-> 1, firstAttempt |-> now, lockedUntil |-> NULL]
          /\ ret.value.attemptsLeft = MAX_ATTEMPTS - 1
          /\ ~ret.value.isLocked

\* C4 witness: recordFailedAttempt is called after the lock ran out and finds the
\* locked record still in the map (no isLocked and no sweep removed it)
C4_Witness ==
    /\ ret.op = "recordFailedAttempt"
    /\ ret.before.lock # NULL
    /\ now > Val(ret.before.lock)
    /\ ret.had
    /\ attempts[ret.key].count = 1

\* C5: a recordFailedAttempt that follows clearAttempts (whatever was recorded before)
\* stores count = 1 and returns attemptsLeft = 4, not locked: what it stores and
\* returns for an identifier that has no record.
C5_ClearThenFailIsFirst ==
    (ret.op = "recordFailedAttempt" /\ ret.before.cleared # NULL)
    => /\ attempts[ret.key].count = 1
       /\ ret.value.attemptsLeft = MAX_ATTEMPTS - 1
       /\ ~ret.value.isLocked
       /\ attempts[ret.key] = RecordFailedAttemptRecord(EmptyMap, ret.key, now)
       /\ ret.value = RecordFailedAttemptResult(attempts[ret.key], now)

\* C5 witness: the identifier was locked by more than five failures, was cleared,
\* and fails again
C5_Witness ==
    /\ ret.op = "recordFailedAttempt"
    /\ ret.before.cleared = Num(MAX_ATTEMPTS + 1)
    /\ attempts[ret.key].count = 1

-----------------------------------------------------------------------------
(* Claims about the password-reset tracker, checked under SpecReset *)

\* the k-th latest allowed request and the latest one fit into one hour
LatestWithinHour(times, k) ==
    Len(times) >= k /\ times[Len(times)] - times[Len(times) - k + 1] <= RESET_WINDOW_MS

\* C6 as claimed: no interval of one hour, placed anywhere, contains more than 3
\* allowed canRequest calls of one identifier (4 allowed calls never fit into an hour).
C6_AtMostThreePerRollingHour ==
    \A e \in Identifiers : ~LatestWithinHour(allowedAt[e], RESET_MAX + 1)

\* C6 as amended: a fixed window of one identifier counts at most 3 allowed
\* canRequest calls, and no interval of one hour contains more than 5 = 2 * 3 - 1
\* allowed calls of one identifier (6 allowed calls never fit into an hour).
C6_AtMostFivePerRollingHour ==
    \A e \in Identifiers :
        /\ Has(resetRequests, e) => resetRequests[e].count <= RESET_MAX
        /\ ~LatestWithinHour(allowedAt[e], 2 * RESET_MAX)

\* C6 witness: five allowed calls within one hour, the latest of them just allowed
C6_Witness ==
    /\ ret.op = "reset.canRequest"
    /\ ret.value.allowed
    /\ LatestWithinHour(allowedAt[ret.key], 2 * RESET_MAX - 1)

\* C7: every denied result of PasswordResetTracker.canRequest and of
\* GeneralRateLimiter.canRequest carries remainingTime >= 1 (minutes).
C7_DeniedWaitsAtLeastOneMinute ==
    (ret.op \in {"reset.canRequest", "general.canRequest"} /\ ~ret.value.allowed)
    => ret.value.remainingTime >= 1

-----------------------------------------------------------------------------
(* Claims about the general rate limiter, checked under SpecGeneral *)

\* C8: counting from the first request of a window, a canRequest call is allowed
\* exactly if it is among the first maxRequests calls made within windowMs of that
\* first request; the first call after the window has elapsed is allowed and leaves
\* count = 1 with windowStart = now.
C8_ExactlyMaxRequestsPerWindow ==
    ret.op = "general.canRequest"
    => /\ ret.value.allowed <=> ipWindow[ret.key].calls <= maxRequests
       /\ (ret.before.start # NULL /\ now - Val(ret.before.start) > windowMs)
          => /\ ret.value.allowed
             /\ ipRequests[ret.key] = [count |-> 1, windowStart |-> now]

\* C8 witness: an address that was denied in its window is allowed again by the
\* first call after the window
C8_Witness ==
    /\ ret.op = "general.canRequest"
    /\ ret.before.calls > maxRequests
    /\ now - Val(ret.before.start) > windowMs
    /\ ret.value.allowed
    /\ ipRequests[ret.key].count = 1

-----------------------------------------------------------------------------
(* Claims about the CSRF token store, checked under SpecCsrf *)

\* C9: verifyToken(K, c) returns true only if a token was generated for K, c is the
\* token generated for K last, and no more than one hour has passed since; so a
\* token generated for another key K2, and not for K, does not validate against K.
C9_OnlyLatestLiveTokenOfKey ==
    (ret.op = "csrf.verifyToken" /\ ret.value)
    => /\ ret.before.issued
       /\ ret.candidate = ret.before.token
       /\ now - ret.before.at <= CSRF_LIFETIME_MS
       /\ \A k2 \in SessionKeys \ {ret.key} :
             (csrfSeen[k2].issued /\ csrfSeen[k2].token = ret.candidate)
             => ret.before.token = csrfSeen[k2].token

\* C9 witness: K holds a live token, and the different, live token of K2 is
\* presented for K and refused
C9_Witness ==
    /\ ret.op = "csrf.verifyToken"
    /\ ret.had
    /\ now - ret.before.at <= CSRF_LIFETIME_MS
    /\ ret.candidate # ret.before.token
    /\ \E k2 \in SessionKeys \ {ret.key} :
          /\ Has(tokens, k2)
          /\ tokens[k2].token = ret.candidate
          /\ now - tokens[k2].createdAt <= CSRF_LIFETIME_MS
    /\ ~ret.value

\* C10: a verifyToken(K, c) made more than one hour after the stored token was
\* created returns false, also for c equal to the stored token, and leaves no record
\* for K; from then on every verifyToken(K, _) returns false until generateToken(K).
C10_ExpiredTokenIsRefusedAndDeleted ==
    /\ (ret.op = "csrf.verifyToken" /\ ret.had /\ now - ret.before.at > CSRF_LIFETIME_MS)
       => ~ret.value /\ ~Has(tokens, ret.key)
    /\ (ret.op = "csrf.verifyToken" /\ ret.before.expired) => ~ret.value
    /\ \A k \in SessionKeys : csrfSeen[k].expired => ~Has(tokens, k)

\* C10 witness: the stored token itself is presented after a verifyToken found it
\* expired and deleted it, and is refused
C10_Witness ==
    /\ ret.op = "csrf.verifyToken"
    /\ ret.before.expired
    /\ ret.candidate = ret.before.token
    /\ ~ret.value

-----------------------------------------------------------------------------
(* The login route *)

\* C2: once five login requests for an identifier have failed credential
\* verification within the attempt window, a further login request for that
\* identifier made before the lock expires is answered with HTTP 429.
C2_FailedLoginsLockTheRoute ==
    (ret.op = "POST /api/auth/login" /\ ret.before.locked) => ret.value.status = 429

\* the identifier of the last login request was locked in the tracker when the
\* request arrived
WasLocked ==
    /\ ret.had
    /\ ret.was.lockedUntil # NULL
    /\ now < Val(ret.was.lockedUntil)

\* C3: on POST /api/auth/login the lock check runs before credential
\* verification: a request that reaches the user lookup has had its identifier
\* checked and found not locked, and a request for a locked identifier is
\* answered 429 with lockedUntil = the remaining minutes of the lock, without
\* the controller being reached (no user document is touched).
C3_LockCheckedBeforeVerification ==
    ret.op = "POST /api/auth/login" =>
        /\ (ret.value.by = "login" /\ ret.value.outcome \notin {"missing", "invalidEmail"})
               => (ret.lockChecked /\ ~WasLocked)
        /\ (WasLocked /\ ret.key # "") =>
               /\ ret.value.status = 429
               /\ ret.value.by # "login"
               /\ usuarios = ret.users
               /\ ret.value.by = "loginRateLimitMiddleware" =>
                      ret.value.lockedUntil = CeilMinutes(Val(ret.was.lockedUntil) - now)

\* a login request for a locked identifier, late in the lock, was answered 429
C3_Witness ==
    /\ ret.op = "POST /api/auth/login"
    /\ WasLocked
    /\ ret.value.status = 429
    /\ ret.value.by = "loginRateLimitMiddleware"
    /\ ret.value.lockedUntil < LOCK_MINUTES
-----------------------------------------------------------------------------
(* Claims about the token blacklist, checked under SpecBlacklist *)

\* C11: after add(token, expiresAt), isBlacklisted(token) returns true at every
\* time now <= expiresAt and false at every time now > expiresAt, and a call at
\* now > expiresAt leaves no entry for the token in the map.
C11_BlacklistedUntilExpiry ==
    (ret.op = "blacklist.isBlacklisted" /\ ret.before # NULL)
    => /\ ret.value <=> now <= Val(ret.before)
       /\ now > Val(ret.before) => ~Has(blacklistedTokens, ret.key)

\* C11 witness: the first isBlacklisted after the expiry found the entry still in
\* the map, returned false and removed it
C11_Witness ==
    /\ ret.op = "blacklist.isBlacklisted"
    /\ ret.before # NULL
    /\ ret.had
    /\ now > Val(ret.before)
    /\ ~ret.value
    /\ ~Has(blacklistedTokens, ret.key)

-----------------------------------------------------------------------------
(* Claims about the routes behind verifyToken, checked under SpecSession *)

\* the last request was on a route behind verifyToken
AuthRoute == ret.op \in {"GET /api/auth/profile", "POST /api/auth/logout"}

\* C12: once POST /api/auth/logout has completed for a token, every later
\* request that presents the token to verifyToken is answered 401 by verifyToken
\* and does not reach its handler, at every later time.
C12_LogoutRevokesForGood ==
    (AuthRoute /\ ret.before # NULL)
    => /\ ret.value.by \in {"rateLimitMiddleware", "verifyToken"}
       /\ ret.value.by = "verifyToken" => ret.value.status = 401

\* C12 witness: a token is presented after its blacklist entry was purged, and
\* refused as expired
C12_Witness ==
    /\ AuthRoute
    /\ ret.before # NULL
    /\ ~ret.had
    /\ ret.value.status = 401
    /\ ret.value.outcome = "expired"

\* C17: in verifyToken the blacklist is consulted on every entry that carries a
\* token, after the signature of the token has been verified and before the
\* claims are trusted (before next() is called).
C17_BlacklistAfterSignature ==
    (AuthRoute /\ ret.key # NULL /\ ret.value.by # "rateLimitMiddleware")
    => /\ \E i \in DOMAIN ret.steps :
             /\ ret.steps[i] = "isBlacklisted"
             /\ \E j \in 1..(i - 1) : ret.steps[j] = "jwt.verify"
       /\ \A i \in DOMAIN ret.steps :
             ret.steps[i] = "next" => \E j \in 1..(i - 1) : ret.steps[j] = "isBlacklisted"

\* C13: a POST request off the allow-list (here POST /api/auth/logout) that
\* carries no x-csrf-token, or one that CSRFProtection.verifyToken rejects, is
\* answered HTTP 403 and does not reach its route handler.
C13_MutatingRequestsNeedCsrfToken ==
    \A a \in Addresses :
        ( /\ ret.op = "POST /api/auth/logout"
          /\ ret.value.by # "rateLimitMiddleware"
          /\ \/ ret.csrf = ""
             \/ ~VerifyTokenResult(tokens, CsrfSessionKey(a), ret.csrf, now) )
        => /\ ret.value.status = 403
           /\ ret.value.by # "logout"

-----------------------------------------------------------------------------
(* Claims about the password-reset route, checked under SpecResetRoute *)

\* the collection with and without a user record for the email
WithUser(db, email) ==
    IF Has(db, ToLowerCase(email)) THEN db
    ELSE MapSet(db, ToLowerCase(email), SeedUsuarios["a@b.com"])
WithoutUser(db, email) == MapDelete(db, ToLowerCase(email))

\* the response the server would now give to a reset request, were the
\* collection db
ResetResponseIf(db, ip, email) ==
    ResetRequestResponse(
        GeneralCanRequestResult(ipRequests, ip, now, maxRequests, windowMs),
        ResetMiddlewareResult(resetRequests, email, now),
        ResetRequestOutcome(db, email))

\* C14: in two states that differ only in whether the requested identifier has
\* a user record, the same POST /api/auth/request-password-reset receives the
\* same status and the same body: 429 with retryAfter when a limiter denies,
\* otherwise 200 with the generic message for a valid email.
C14_ResetRequestHidesExistence ==
    \A a \in Addresses, e \in ResetEmailInputs :
        LET email == SanitizeInput(e)
            with == ResetResponseIf(WithUser(usuarios, email), a, email)
            without == ResetResponseIf(WithoutUser(usuarios, email), a, email)
        IN  /\ with = without
            /\ with.status \in {200, 400, 429}
            /\ with.status = 429 <=> "retryAfter" \in DOMAIN with.body
            /\ (with.status # 429 /\ IsValidEmail(email)) => with.status = 200

\* C14 witness: a reset request for an existing user was answered 200 with the
\* generic message, a code stored and mailed
C14_Witness ==
    /\ ret.op = "POST /api/auth/request-password-reset"
    /\ ret.outcome = "sent"
    /\ ret.mailed
    /\ ret.value = ResetRequestResponse([allowed |-> TRUE], [allowed |-> TRUE], "noUser")
    /\ usuarios[ret.key].codigoRecuperacion # NULL

-----------------------------------------------------------------------------
(* Claims about rateLimitMiddleware, checked under SpecServer *)

\* the last step was a request to the server
IsRequest == ret.op \notin {"none"} /\ "limit" \in DOMAIN ret

C16_RateLimitHeaders ==
    (IsRequest /\ ret.limit.allowed) =>
        /\ ret.headers.limit = maxRequests
        /\ ret.headers.remaining = maxRequests - ipWindow[ret.ip].calls
        /\ ret.headers.remaining >= 0
        /\ ret.headers.remaining = 0 <=> ipRequests[ret.ip].count = maxRequests

\* C16 witness: the last allowed request of a window carries remaining = 0
C16_Witness ==
    /\ IsRequest
    /\ ret.limit.allowed
    /\ ret.headers.remaining = 0
    /\ ipWindow[ret.ip].calls = maxRequests

-----------------------------------------------------------------------------
(* Further claims about the CSRF token store, checked under SpecCsrf *)

\* C18: a session key has at most one live token: once generateToken(K) has been
\* called a second time (and returned a different token), verifyToken(K, first)
\* returns false and verifyToken(K, second) returns true; and at any time the one
\* token that verifyToken(K, _) accepts is the token generated last for K, while
\* its record is there and at most one hour old.
C18_OneLiveTokenPerKey ==
    /\ (ret.op = "csrf.generateToken" /\ ret.before.issued)
       => /\ ret.before.token # ret.value
             => ~VerifyTokenResult(tokens, ret.key, ret.before.token, now)
          /\ VerifyTokenResult(tokens, ret.key, ret.value, now)
    /\ \A k \in SessionKeys, c \in TokenValues :
          VerifyTokenResult(tokens, k, c, now)
          => (csrfSeen[k].issued /\ c = csrfSeen[k].token)
    /\ \A k \in SessionKeys :
          (Has(tokens, k) /\ now - tokens[k].createdAt <= CSRF_LIFETIME_MS)
          => VerifyTokenResult(tokens, k, csrfSeen[k].token, now)

\* C18 witness: a second generateToken for a key that still held its first token
\* has returned a different token
C18_Witness ==
    /\ ret.op = "csrf.generateToken"
    /\ ret.before.issued
    /\ ret.had
    /\ ret.before.token # ret.value
    /\ now - ret.before.at <= CSRF_LIFETIME_MS

\* C19: verifyToken leaves the token store unchanged whenever the record of the
\* key is absent or at most one hour old: a failed verification does not
\* invalidate the stored token and a successful one does not consume it, so a
\* call that presents the stored token within the hour returns true, whatever
\* calls of verifyToken came before.
C19_VerifyLeavesStoreUnchanged ==
    [][ (ret'.op = "csrf.verifyToken"
         /\ \/ ~Has(tokens, ret'.key)
            \/ now - tokens[ret'.key].createdAt <= CSRF_LIFETIME_MS)
        => /\ tokens' = tokens
           /\ (Has(tokens, ret'.key) /\ ret'.candidate = tokens[ret'.key].token)
              => ret'.value ]_vars

\* C19 witness: a wrong candidate was refused within the hour and the stored
\* token is still in the store
C19_Witness ==
    /\ ret.op = "csrf.verifyToken"
    /\ ret.had
    /\ now - ret.before.at <= CSRF_LIFETIME_MS
    /\ ret.candidate # ret.before.token
    /\ ~ret.value
    /\ Has(tokens, ret.key)
    /\ tokens[ret.key].token = ret.before.token

-----------------------------------------------------------------------------
(* Claims about concurrent requests, checked under SpecConcurrent *)

\* the count of the record of an identifier that is in its attempt window
CountInWindow(m, email, t) ==
    IF Has(m, email) /\ ~AttemptWindowPassed(t, m[email].firstAttempt)
    THEN m[email].count ELSE 0

\* C20: under any interleaving of concurrently handled requests, each call of
\* recordFailedAttempt raises the count of the identifier's record by exactly
\* one within the attempt window (no lost update), so N calls raise it by N.
C20_NoLostUpdate ==
    [][ \A w \in Workers :
           (inflight[w].pc = "awaiting" /\ inflight'[w].pc = "done")
           => attempts'[inflight[w].email].count
                 = CountInWindow(attempts, inflight[w].email, now) + 1 ]_vars

\* C20 witness: two requests that were both in flight before either recorded
\* its failure have both recorded it, and the count is 2
C20_Witness ==
    \E w1, w2 \in Workers :
        /\ w1 # w2
        /\ inflight[w1].pc = "done" /\ inflight[w1].snap = EmptyMap
        /\ inflight[w2].pc = "done" /\ inflight[w2].snap = EmptyMap
        /\ \E e \in Identifiers : Has(attempts, e) /\ attempts[e].count = 2

-----------------------------------------------------------------------------
(* Claims about the keys of the trackers, checked under SpecAccount *)

\* C21: tracker keys are normalized account identifiers: a login request for
\* an account whose (lower-cased) identifier is locked is answered 429 by the
\* lock check whatever the letter case of the email it carries, and a
\* password-reset request is counted in the record of the lower-cased email, so
\* that the password-reset tracker holds records under lower-cased keys only.
C21_TrackerKeysAreNormalized ==
    /\ (/\ ret.op = "POST /api/auth/login"
        /\ ret.limit.allowed
        /\ ret.key # ""
        /\ IsLockedResult(attempts, ToLowerCase(ret.key), now).locked)
       => /\ ret.value.status = 429
          /\ ret.value.by = "loginRateLimitMiddleware"
    /\ (/\ ret.op = "POST /api/auth/request-password-reset"
        /\ ret.limit.allowed
        /\ ret.key # "")
       => Has(resetRequests, ToLowerCase(ret.key))
    /\ \A k \in DOMAIN resetRequests : k = ToLowerCase(k)

-----------------------------------------------------------------------------
(* Claims about the burst at a window boundary, checked under SpecBurst *)

\* C22: for every address and every interval of length windowMs, wherever it is
\* placed, at most 2 * maxRequests calls of canRequest inside the interval return
\* allowed = true (the allowed calls of the windowMs that end with any call
\* number at most 2 * maxRequests).
C22_BurstAtMostTwiceTheLimit ==
    \A a \in Addresses : Total(recent[a]) <= 2 * maxRequests

\* C22 witness: an interval of length windowMs holds 2 * maxRequests - 1 allowed
\* calls: all but the first of one window and all of the next
C22_Witness ==
    /\ ret.op = "general.canRequest"
    /\ ret.value.allowed
    /\ Total(recent[ret.key]) = 2 * maxRequests - 1
    /\ now - recent[ret.key][1].at <= windowMs

-----------------------------------------------------------------------------
(* Claims about the trackers taken together, checked under SpecTrackers *)

\* the number of the five tracker maps that a step changes
Changed(before, after) == IF before = after THEN 0 ELSE 1

\* C23: no cross-tracker rollback: every request that the general limiter allows
\* leaves its increment in the limiter's record, also when the login-lock check
\* or the password-reset tracker then rejects it; and every request changes only
\* the maps of the trackers its own chain calls, and every sweep at most one map.
C23_NoCrossTrackerRollback ==
    [][ /\ ("limit" \in DOMAIN ret' /\ ret'.limit.allowed)
           => /\ Has(ipRequests', ret'.ip)
              /\ ipRequests'[ret'.ip].count = ipWindow'[ret'.ip].calls
              /\ ipRequests' # ipRequests
        /\ ret'.op = "POST /api/auth/login"
           => /\ resetRequests' = resetRequests
              /\ tokens' = tokens
              /\ blacklistedTokens' = blacklistedTokens
        /\ ret'.op = "POST /api/auth/request-password-reset"
           => /\ attempts' = attempts
              /\ tokens' = tokens
              /\ blacklistedTokens' = blacklistedTokens
        /\ ret'.op = "GET /api/csrf-token"
           => /\ attempts' = attempts
              /\ resetRequests' = resetRequests
              /\ blacklistedTokens' = blacklistedTokens
        /\ ret'.op = "POST /api/auth/logout"
           => /\ attempts' = attempts
              /\ resetRequests' = resetRequests
              /\ tokens' = tokens
        /\ ret'.op = "none"
           => Changed(attempts, attempts') + Changed(resetRequests, resetRequests')
                + Changed(ipRequests, ipRequests') + Changed(tokens, tokens')
                + Changed(blacklistedTokens, blacklistedTokens') <= 1 ]_vars

\* C23 witness: the fourth password-reset request of an address was rejected by
\* the password-reset tracker, and the general limiter counts all four requests
C23_Witness ==
    /\ ret.op = "POST /api/auth/request-password-reset"
    /\ ret.value.by = "passwordResetRateLimitMiddleware"
    /\ ipWindow[ret.ip].calls = RESET_MAX + 1
    /\ ipRequests[ret.ip].count = RESET_MAX + 1
    /\ resetRequests[ret.key].count = RESET_MAX

-----------------------------------------------------------------------------
(* Further claims about the login tracker, checked under SpecLogin *)

\* C24: a lock that is set to expire at L is not cleared or shortened before L
\* by recordFailedAttempt, isLocked or cleanup: whenever the record of an
\* identifier holds lockedUntil = L with now < L, every step other than
\* clearAttempts leaves isLocked reporting locked as long as the clock is before L.
C24_LockHoldsUntilExpiry ==
    [][ \A e \in Identifiers :
           (/\ Has(attempts, e)
            /\ Truthy(attempts[e].lockedUntil)
            /\ now < Val(attempts[e].lockedUntil)
            /\ now' < Val(attempts[e].lockedUntil)
            /\ ret'.op # "clearAttempts")
           => IsLockedResult(attempts', e, now').locked ]_vars

\* C26: every record with a lockedUntil has lockedUntil <= firstAttempt + 30
\* minutes, so failed attempts cannot extend a lock beyond that, and the sweep
\* (which deletes records whose firstAttempt is more than one hour old) keeps
\* every record whose lock is still active.
C26_LockWithinThirtyMinutes ==
    \A e \in DOMAIN attempts :
        Truthy(attempts[e].lockedUntil)
        => /\ Val(attempts[e].lockedUntil) <= attempts[e].firstAttempt + ATTEMPT_WINDOW_MS + LOCK_MS
           /\ now < Val(attempts[e].lockedUntil) => Has(LoginCleanupMap(attempts, now), e)

\* C26 witness: a failed attempt made exactly 15 minutes after the first one has
\* moved the lock to firstAttempt + 30 minutes
C26_Witness ==
    /\ ret.op = "recordFailedAttempt"
    /\ attempts[ret.key].count > MAX_ATTEMPTS
    /\ attempts[ret.key].lockedUntil
          = Num(attempts[ret.key].firstAttempt + ATTEMPT_WINDOW_MS + LOCK_MS)

-----------------------------------------------------------------------------
(* Claims about the sweeps, checked under SpecSweeps *)

\* C25: the sweeps are observationally transparent: every isLocked,
\* recordFailedAttempt, canRequest, verifyToken and isBlacklisted call has the
\* same outcome (locked or not, the result of recordFailedAttempt and of
\* canRequest, valid or not, blacklisted or not) on the trackers, swept at any
\* points of the run, as on the copies that the same calls and no sweep reached.
C25_SweepsAreTransparent ==
    "copyValue" \in DOMAIN ret =>
        IF ret.op = "isLocked" THEN ret.value.locked = ret.copyValue.locked
        ELSE ret.value = ret.copyValue

\* C25 witness: recordFailedAttempt was called for an identifier whose record a
\* sweep had deleted, while the copy still held the record, locked in its time
C25_Witness ==
    /\ ret.op = "recordFailedAttempt"
    /\ "copyValue" \in DOMAIN ret
    /\ ~ret.had
    /\ ret.copyHad
    /\ attempts[ret.key].count = 1
    /\ unswept.login = attempts

\* C27: every record of the password-reset tracker has 0 <= count <= 3 and
\* every record of the general limiter has 0 <= count <= maxRequests, and a
\* canRequest call that returns allowed = false leaves the record of its key,
\* count and windowStart, as it was.
C27_CountersBounded ==
    [][ /\ \A e \in DOMAIN resetRequests' : resetRequests'[e].count \in 0..RESET_MAX
        /\ \A a \in DOMAIN ipRequests' : ipRequests'[a].count \in 0..maxRequests
        /\ (ret'.op = "reset.canRequest" /\ ~ret'.value.allowed)
           => /\ Has(resetRequests, ret'.key) /\ Has(resetRequests', ret'.key)
              /\ resetRequests'[ret'.key].count = resetRequests[ret'.key].count
              /\ resetRequests'[ret'.key].windowStart = resetRequests[ret'.key].windowStart
        /\ (ret'.op = "general.canRequest" /\ ~ret'.value.allowed)
           => /\ Has(ipRequests, ret'.key) /\ Has(ipRequests', ret'.key)
              /\ ipRequests'[ret'.key].count = ipRequests[ret'.key].count
              /\ ipRequests'[ret'.key].windowStart = ipRequests[ret'.key].windowStart ]_vars

\* C27 witness: a password-reset canRequest was denied exactly one hour after
\* the window started, and the record still counts 3 from that start
C27_Witness ==
    /\ ret.op = "reset.canRequest"
    /\ ~ret.value.allowed
    /\ resetRequests[ret.key].count = RESET_MAX
    /\ now - resetRequests[ret.key].windowStart = RESET_WINDOW_MS

-----------------------------------------------------------------------------
(* Claims about the accounts under concurrent requests *)

\* the requests to resetPassword that presented the code and were answered 200
ResetSucceeded ==
    {w \in Workers : inflight[w].pc = "done" /\ inflight[w].op = "resetPassword"}

\* C28: a recovery code is single-use: of the resetPassword requests that present
\* the code issued by one requestPasswordReset, at most one succeeds, however the
\* concurrently handled requests for the email interleave
C28_RecoveryCodeIsSingleUse ==
    Cardinality(ResetSucceeded) <= 1

\* the number of documents of the collection whose email is e
DocumentsOf(e) ==
    (IF Has(usuarios, e) THEN 1 ELSE 0)
        + Cardinality({i \in DOMAIN extras : extras[i].email = e})

\* C29: the emails are unique: whatever the interleaving of the concurrently
\* handled register requests and Google account creations, the collection holds
\* at most one document per lower-cased email
C29_OneDocumentPerEmail ==
    \A e \in {ToLowerCase(x) : x \in CaseInputs} : DocumentsOf(e) <= 1

\* C30: a login with the password chosen at registration succeeds only after
\* verifyEmail has accepted the code sent to the account or resetPassword has
\* replaced the password; nothing else, Google sign-in included, makes it succeed
C30_LoginOnlyAfterVerification ==
    (/\ ret.op = "POST /api/auth/login"
     /\ ret.value.by = "login"
     /\ ret.value.outcome = "ok")
    => \/ ToLowerCase(ret.key) \in accepted.verified
       \/ ToLowerCase(ret.key) \in accepted.replaced
====
